---------------------------- MODULE Spec2Model ----------------------------
(***************************************************************************)
(* scriv-sync: bi-directional sync between a markdown directory and a      *)
(* Scrivener project.  The model covers the reconciliation engine: the     *)
(* persisted sync State, change detection, the Plan and its execution,     *)
(* together with the text conversions the engine relies on (file name <->  *)
(* title, markdown <-> RTF).                                               *)
(*                                                                         *)
(* Texts (file names, titles, contents, RTF) are sequences of one-char     *)
(* strings, so that the conversions are computed character by character   *)
(* the way the Go code computes them.                                      *)
(***************************************************************************)
EXTENDS Integers, Sequences, FiniteSets, TLC

(***************************************************************************)
(* Characters and generic string helpers (Go package strings).             *)
(***************************************************************************)
LowerLetters == <<"a","b","c","d","e","f","g","h","i","j","k","l","m",
                  "n","o","p","q","r","s","t","u","v","w","x","y","z">>
UpperLetters == <<"A","B","C","D","E","F","G","H","I","J","K","L","M",
                  "N","O","P","Q","R","S","T","U","V","W","X","Y","Z">>
Digits == {"0","1","2","3","4","5","6","7","8","9"}
\* \s of Go regexp (RE2): [\t\n\f\r ]
WS == {" ", "\t", "\n", "\r", "\f"}

Range(f) == {f[i] : i \in DOMAIN f}
IsLower(ch) == ch \in Range(LowerLetters)
IsUpper(ch) == ch \in Range(UpperLetters)
IndexIn(seq, ch) == CHOOSE i \in DOMAIN seq : seq[i] = ch
ToLowerCh(ch) == IF IsUpper(ch) THEN LowerLetters[IndexIn(UpperLetters, ch)] ELSE ch
ToUpperCh(ch) == IF IsLower(ch) THEN UpperLetters[IndexIn(LowerLetters, ch)] ELSE ch
\* strings.ToLower / strings.ToUpper
ToLower(s) == [i \in DOMAIN s |-> ToLowerCh(s[i])]
ToUpper(s) == [i \in DOMAIN s |-> ToUpperCh(s[i])]

\* s[i..] starts with pat
HasPrefixAt(s, i, pat) ==
    /\ i + Len(pat) - 1 <= Len(s)
    /\ \A k \in 1..Len(pat) : s[i + k - 1] = pat[k]
HasSuffix(s, suf) ==
    /\ Len(suf) <= Len(s)
    /\ SubSeq(s, Len(s) - Len(suf) + 1, Len(s)) = suf
TrimSuffix(s, suf) == IF HasSuffix(s, suf) THEN SubSeq(s, 1, Len(s) - Len(suf)) ELSE s
Contains(s, pat) == \E i \in 1..Len(s) : HasPrefixAt(s, i, pat)

\* index of the first character at or after i that is not in set (Len+1 if none)
SkipSet(s, i, set) ==
    CHOOSE k \in i..(Len(s) + 1) :
        /\ k = Len(s) + 1 \/ s[k] \notin set
        /\ \A m \in i..(k - 1) : s[m] \in set
\* index of the first character at or after i that is in set (Len+1 if none)
FindSet(s, i, set) ==
    CHOOSE k \in i..(Len(s) + 1) :
        /\ k = Len(s) + 1 \/ s[k] \in set
        /\ \A m \in i..(k - 1) : s[m] \notin set

(***************************************************************************)
(* A left-to-right pass over a string, as the regexp and strings           *)
(* replacement functions make it.  What is replaced is a rule (a record);  *)
(* StepOf(rule, s, i) is <<output, next position>> for position i, and the *)
(* pass concatenates the outputs: the leftmost match is replaced, and the  *)
(* pass goes on after it.  The pass is evaluated in blocks of twelve steps *)
(* to keep the evaluation shallow.                                         *)
(***************************************************************************)
\* strings.ReplaceAll(s, old, new) for a non-empty old
Literal(old, new) == [kind |-> "literal", old |-> old, new |-> new]
LiteralStep(r, s, i) ==
    IF HasPrefixAt(s, i, r.old) THEN <<r.new, i + Len(r.old)>> ELSE <<<<s[i]>>, i + 1>>

\* strings.NewReplacer with one-character keys: the characters of dash become
\* "-", the characters of drop are removed
PerChar(dash, drop) == [kind |-> "perchar", dash |-> dash, drop |-> drop]
PerCharStep(r, s, i) ==
    <<IF s[i] \in r.dash THEN <<"-">> ELSE IF s[i] \in r.drop THEN <<>> ELSE <<s[i]>>, i + 1>>

\* ReplaceAllString of a pattern  open ws{minWs,} ([^stop]{minGrp,}) close  by
\* newOpen $1 newClose, where ws is the class of the greedy white-space run (the
\* empty set when the pattern has none)
Delim(open, ws, minWs, stop, minGrp, close, newOpen, newClose) ==
    [kind |-> "delim", open |-> open, ws |-> ws, minWs |-> minWs, stop |-> stop,
     minGrp |-> minGrp, close |-> close, newOpen |-> newOpen, newClose |-> newClose]
\* a is the position after the opening, the group is s[g..e-1]
DelimMatch(r, s, i, a, e, g) ==
    IF /\ HasPrefixAt(s, i, r.open)
       /\ HasPrefixAt(s, e, r.close)
       /\ g >= a
       /\ g - a >= r.minWs
       /\ e - g >= r.minGrp
    THEN <<r.newOpen \o SubSeq(s, g, e - 1) \o r.newClose, e + Len(r.close)>>
    ELSE <<<<s[i]>>, i + 1>>
\* the group ends before s[e]; the greedy run of ws ends before s[w] and gives
\* back what the group needs
DelimBacktrack(r, s, i, a, e, w) ==
    DelimMatch(r, s, i, a, e, IF w > e - r.minGrp THEN e - r.minGrp ELSE w)
DelimStep(r, s, i) ==
    DelimBacktrack(r, s, i, i + Len(r.open), FindSet(s, i + Len(r.open), r.stop),
                   SkipSet(s, i + Len(r.open), r.ws))

\* ReplaceAllString(text, "") of  prefix [letters]{minLetters,} \d{minDigits,} tail,
\* where tail is \s? (at most one) or \s* (all)
Words(prefix, letters, minLetters, minDigits, allWs) ==
    [kind |-> "words", prefix |-> prefix, letters |-> letters, minLetters |-> minLetters,
     minDigits |-> minDigits, allWs |-> allWs]
WordsTail(r, s, d) ==
    IF r.allWs THEN SkipSet(s, d, WS)
    ELSE IF d <= Len(s) /\ s[d] \in WS THEN d + 1 ELSE d
\* the letters are s[p..l-1], the digits s[l..d-1]
WordsMatch(r, s, i, p, l, d) ==
    IF /\ HasPrefixAt(s, i, r.prefix)
       /\ l - p >= r.minLetters
       /\ d - l >= r.minDigits
    THEN <<<<>>, WordsTail(r, s, d)>>
    ELSE <<<<s[i]>>, i + 1>>
WordsDigits(r, s, i, p, l) == WordsMatch(r, s, i, p, l, SkipSet(s, l, Digits))
WordsStep(r, s, i) ==
    WordsDigits(r, s, i, i + Len(r.prefix), SkipSet(s, i + Len(r.prefix), r.letters))

\* ReplaceAllString(text, new) of  [set]{minRun,}
Runs(set, minRun, new) == [kind |-> "runs", set |-> set, minRun |-> minRun, new |-> new]
RunsEnd(r, s, i, e) ==
    IF e - i >= r.minRun THEN <<r.new, e>>
    ELSE IF e > i THEN <<SubSeq(s, i, e - 1), e>>
    ELSE <<<<s[i]>>, i + 1>>
RunsStep(r, s, i) == RunsEnd(r, s, i, SkipSet(s, i, r.set))

\* ReplaceAllString(text, "") of  \{\\(w1|w2|...)[^}]*\}
Groups(words) == [kind |-> "groups", words |-> words]
GroupsEnd(r, s, i, e) ==
    IF /\ HasPrefixAt(s, i, <<"{", "\\">>)
       /\ \E w \in r.words : HasPrefixAt(s, i + 2, w)
       /\ e <= Len(s)
    THEN <<<<>>, e + 1>>
    ELSE <<<<s[i]>>, i + 1>>
GroupsStep(r, s, i) == GroupsEnd(r, s, i, FindSet(s, i + 2, {"}"}))

StepOf(r, s, i) ==
    CASE r.kind = "literal" -> LiteralStep(r, s, i)
      [] r.kind = "perchar" -> PerCharStep(r, s, i)
      [] r.kind = "delim"   -> DelimStep(r, s, i)
      [] r.kind = "words"   -> WordsStep(r, s, i)
      [] r.kind = "runs"    -> RunsStep(r, s, i)
      [] r.kind = "groups"  -> GroupsStep(r, s, i)

RECURSIVE ScanChunk(_, _, _, _, _)
ScanNext(rule, s, lim, acc, r) == ScanChunk(rule, s, r[2], lim, acc \o r[1])
ScanChunk(rule, s, i, lim, acc) ==
    IF i > Len(s) \/ i >= lim THEN <<acc, i>>
    ELSE ScanNext(rule, s, lim, acc, StepOf(rule, s, i))
RECURSIVE ScanFrom(_, _, _)
ScanRest(rule, s, r) == r[1] \o ScanFrom(rule, s, r[2])
ScanFrom(rule, s, i) ==
    IF i > Len(s) THEN <<>> ELSE ScanRest(rule, s, ScanChunk(rule, s, i, i + 12, <<>>))
Scan(rule, s) == ScanFrom(rule, s, 1)

ReplaceAll(s, old, new) == Scan(Literal(old, new), s)

\* strings.TrimSpace, strings.Trim(s, cutset)
RECURSIVE TrimLeftSet(_, _)
TrimLeftSet(s, set) == IF s # <<>> /\ Head(s) \in set THEN TrimLeftSet(Tail(s), set) ELSE s
RECURSIVE TrimRightSet(_, _)
TrimRightSet(s, set) ==
    IF s # <<>> /\ s[Len(s)] \in set THEN TrimRightSet(SubSeq(s, 1, Len(s) - 1), set) ELSE s
TrimSet(s, set) == TrimRightSet(TrimLeftSet(s, set), set)
TrimSpace(s) == TrimSet(s, WS)

\* strings.Split(s, sep) for a one-character sep: a sequence of strings
RECURSIVE SplitFrom(_, _, _)
SplitAt(s, i, sep, j) ==
    IF j > Len(s) THEN <<SubSeq(s, i, Len(s))>>
    ELSE <<SubSeq(s, i, j - 1)>> \o SplitFrom(s, j + 1, sep)
SplitFrom(s, i, sep) == SplitAt(s, i, sep, FindSet(s, i, {sep}))
Split(s, sep) == SplitFrom(s, 1, sep)
\* strings.Join
RECURSIVE Join(_, _)
Join(parts, sep) ==
    IF parts = <<>> THEN <<>>
    ELSE IF Len(parts) = 1 THEN parts[1]
    ELSE parts[1] \o sep \o Join(Tail(parts), sep)
\* strings.Fields: the maximal runs of non-space characters
RECURSIVE FieldsFrom(_, _)
FieldTo(s, a, b) == <<SubSeq(s, a, b - 1)>> \o FieldsFrom(s, b)
FieldAt(s, a) == IF a > Len(s) THEN <<>> ELSE FieldTo(s, a, FindSet(s, a, WS))
FieldsFrom(s, i) == FieldAt(s, SkipSet(s, i, WS))
Fields(s) == FieldsFrom(s, 1)


(***************************************************************************)
(* File name <-> title conversions (package sync, init helpers).           *)
(***************************************************************************)
\* strings.NewReplacer(" ","-", "/","-", "\\","-", ":","-", "*","", "?","",
\*                     "\"","", "<","", ">","", "|",""): one pass, per character
Replacer(s) == Scan(PerChar({" ", "/", "\\", ":"}, {"*", "?", "\"", "<", ">", "|"}), s)
\* for strings.Contains(name, "--") { name = strings.ReplaceAll(name, "--", "-") }
RECURSIVE CollapseDashes(_)
CollapseDashes(s) ==
    IF Contains(s, <<"-","-">>) THEN CollapseDashes(ReplaceAll(s, <<"-","-">>, <<"-">>)) ELSE s
sanitizeFilename(title) == TrimSet(CollapseDashes(Replacer(ToLower(title))), {"-"})

\* filepath.Base for a slash-separated path
Last(parts) == parts[Len(parts)]
Base(path) == Last(Split(path, "/"))
\* filepath.Ext: the suffix beginning at the final dot, empty if there is no dot
LastDot(s) == IF \E i \in 1..Len(s) : s[i] = "."
              THEN CHOOSE i \in 1..Len(s) : s[i] = "." /\ \A k \in (i + 1)..Len(s) : s[k] # "."
              ELSE 0
From(s, d) == IF d = 0 THEN <<>> ELSE SubSeq(s, d, Len(s))
Ext(name) == From(name, LastDot(name))
TitleCaseWord(w) == <<ToUpperCh(w[1])>> \o ToLower(Tail(w))
\* strings.TrimSuffix(name, filepath.Ext(name))
TrimExt(name) == TrimSuffix(name, Ext(name))
\* each word of strings.Fields with its first letter in upper case and the rest
\* in lower case, joined by single spaces
TitleCase(words) == Join([i \in DOMAIN words |-> TitleCaseWord(words[i])], <<" ">>)
titleFromFilename(filename) ==
    TitleCase(Fields(ReplaceAll(TrimExt(TrimSuffix(filename, <<".","m","d">>)),
                                <<"-">>, <<" ">>)))

(***************************************************************************)
(* Markdown <-> RTF conversion (package rtf).                              *)
(***************************************************************************)
BS == "\\"
\* a text put through the replacements of rules, one after the other
RECURSIVE ReplaceEach(_, _)
ReplaceEach(rules, text) ==
    IF rules = <<>> THEN text ELSE ReplaceEach(Tail(rules), Scan(Head(rules), text))

\* escapeRTF
escapeRTF(text) ==
    ReplaceEach(<<Literal(<<BS>>, <<BS, BS>>), Literal(<<"{">>, <<BS, "{">>),
                  Literal(<<"}">>, <<BS, "}">>)>>, text)
\* convertInlineFormatting: boldRe \*\*([^*]+)\*\* -> {\b $1}, then
\* italicRe \*([^*]+)\* -> {\i $1}
convertInlineFormatting(text) ==
    ReplaceEach(<<Delim(<<"*","*">>, {}, 0, {"*"}, 1, <<"*","*">>, <<"{", BS, "b", " ">>, <<"}">>),
                  Delim(<<"*">>, {}, 0, {"*"}, 1, <<"*">>, <<"{", BS, "i", " ">>, <<"}">>)>>,
                text)

\* the number of leading '#' of a line
HashRun(line) == SkipSet(line, 1, {"#"}) - 1
\* the text matched by \s+(.+)$ from position a of a one-line string: the part
\* after the white space run (its last character when only white space is left)
AfterWs(line, w) ==
    IF w > Len(line) THEN SubSeq(line, Len(line), Len(line)) ELSE SubSeq(line, w, Len(line))
RestAfterWs(line, a) == AfterWs(line, SkipSet(line, a, WS))
\* \s+(.+)$ matches from position a
WsThenText(line, a) == a <= Len(line) /\ line[a] \in WS /\ Len(line) >= a + 1
\* headingRe (?m)^(#{1,3})\s+(.+)$
IsHeading(line) == HashRun(line) \in 1..3 /\ WsThenText(line, HashRun(line) + 1)
\* bulletRe (?m)^-\s+(.+)$
IsBullet(line) == line # <<>> /\ line[1] = "-" /\ WsThenText(line, 2)
FontSize(level) == CASE level = 1 -> <<"7","2">> [] level = 2 -> <<"6","0">>
                     [] OTHER -> <<"5","2">>
Pard == <<BS,"p","a","r","d">>
F0   == <<BS,"f","0">>
Fs24 == <<BS,"f","s","2","4">>
\* the return statement of each case of convertMarkdownLine, text being the
\* matched text after escapeRTF and convertInlineFormatting
FormatLine(line, text) ==
    IF IsHeading(line)
    THEN Pard \o F0 \o <<BS,"f","s">> \o FontSize(HashRun(line)) \o <<BS,"b"," ">>
         \o text \o <<BS,"b","0">> \o Fs24
    ELSE IF IsBullet(line)
    THEN Pard \o <<BS,"l","i","3","6","0">> \o F0 \o Fs24
         \o <<" ", BS,"b","u","l","l","e","t"," "," ">> \o text
    ELSE Pard \o F0 \o Fs24 \o <<" ">> \o text
\* matches[2] of headingRe, matches[1] of bulletRe, or the line
MatchedText(line) ==
    IF IsHeading(line) THEN RestAfterWs(line, HashRun(line) + 1)
    ELSE IF IsBullet(line) THEN RestAfterWs(line, 2)
    ELSE line
convertMarkdownLine(line) ==
    FormatLine(line, convertInlineFormatting(escapeRTF(MatchedText(line))))

FontTbl == <<"{",BS,"f","o","n","t","t","b","l",BS,"f","0",BS,"f","n","i","l",
             BS,"f","c","h","a","r","s","e","t","0"," ",
             "H","e","l","v","e","t","i","c","a",";","}">>
ColorTbl == <<"{",BS,"c","o","l","o","r","t","b","l",";",BS,"r","e","d","2","5","5",
              BS,"g","r","e","e","n","2","5","5",BS,"b","l","u","e","2","5","5",";","}">>
RTFHeader == <<"{",BS,"r","t","f","1",BS,"a","n","s","i",
               BS,"a","n","s","i","c","p","g","1","2","5","2",
               BS,"c","o","c","o","a","r","t","f","2","7","0","9",
               BS,"c","o","c","o","a","t","e","x","t","s","c","a","l","i","n","g","0",
               BS,"c","o","c","o","a","p","l","a","t","f","o","r","m","0">>
               \o FontTbl \o ColorTbl \o <<"\n">>
\* each line converted, the results joined with \par and a newline
ConvertLines(lines) ==
    Join([i \in DOMAIN lines |-> convertMarkdownLine(lines[i])], <<BS,"p","a","r","\n">>)
MarkdownToRTF(md) == RTFHeader \o ConvertLines(Split(md, "\n")) \o <<"}">>

\* headerRe  \{\\(fonttbl|colortbl|stylesheet|info)[^}]*\}
headerRe == Groups({ <<"f","o","n","t","t","b","l">>, <<"c","o","l","o","r","t","b","l">>,
                     <<"s","t","y","l","e","s","h","e","e","t">>, <<"i","n","f","o">> })
\* controlWordRe  \\[a-z]+\d*\s?
controlWordRe == Words(<<BS>>, Range(LowerLetters), 1, 0, FALSE)
\* multiSpaceRe  [ \t]+
multiSpaceRe == Runs({" ", "\t"}, 1, <<" ">>)
\* multiNewlineRe  \n{3,}
multiNewlineRe == Runs({"\n"}, 3, <<"\n","\n">>)
\* rtfBoldRe \{\\b\s*([^}]*)\} and rtfItalicRe \{\\i\s*([^}]*)\}
rtfBoldRe == Delim(<<"{",BS,"b">>, WS, 0, {"}"}, 0, <<"}">>, <<"*","*">>, <<"*","*">>)
rtfItalicRe == Delim(<<"{",BS,"i">>, WS, 0, {"}"}, 0, <<"}">>, <<"*">>, <<"*">>)
\* \\b\s+([^\\]+)\\b0 and \\i\s+([^\\]+)\\i0
inlineBoldRe == Delim(<<BS,"b">>, WS, 1, {BS}, 1, <<BS,"b","0">>, <<"*","*">>, <<"*","*">>)
inlineItalicRe == Delim(<<BS,"i">>, WS, 1, {BS}, 1, <<BS,"i","0">>, <<"*">>, <<"*">>)
\* \\fs\d+\s*
fontSizeRe == Words(<<BS,"f","s">>, {}, 0, 1, TRUE)

\* convertFontSizesToHeadings
HasFontSize(line, n) == Contains(line, <<BS,"f","s">> \o n)
HeadingMark(line) ==
    IF HasFontSize(line, <<"7","2">>) \/ HasFontSize(line, <<"6","8">>) THEN <<"#"," ">>
    ELSE IF HasFontSize(line, <<"6","0">>) \/ HasFontSize(line, <<"5","6">>)
    THEN <<"#","#"," ">>
    ELSE IF HasFontSize(line, <<"5","2">>) \/ HasFontSize(line, <<"4","8">>)
    THEN <<"#","#","#"," ">>
    ELSE <<>>
MarkedLine(line, mark) ==
    IF mark = <<>> THEN line ELSE mark \o TrimSpace(Scan(fontSizeRe, line))
HeadingLines(lines) ==
    Join([i \in DOMAIN lines |-> MarkedLine(lines[i], HeadingMark(lines[i]))], <<"\n">>)
convertFontSizesToHeadings(text) == HeadingLines(Split(text, "\n"))

\* "Trim each line"
TrimEach(lines) == Join([i \in DOMAIN lines |-> TrimSpace(lines[i])], <<"\n">>)
TrimLines(text) == TrimEach(Split(text, "\n"))

\* RTFToMarkdown up to convertFontSizesToHeadings: the header sections, bold,
\* italic, and the six strings.ReplaceAll calls that turn RTF line breaks into
\* newlines
BeforeHeadings ==
    << headerRe, rtfBoldRe, inlineBoldRe, rtfItalicRe, inlineItalicRe,
       Literal(<<BS,"p","a","r","\n">>, <<"\n">>),
       Literal(<<BS,"p","a","r","\r","\n">>, <<"\n">>),
       Literal(<<BS,"p","a","r"," ">>, <<"\n">>),
       Literal(<<BS,"p","a","r">>, <<"\n">>),
       Literal(<<BS,"\n">>, <<"\n">>),
       Literal(<<BS,"\r","\n">>, <<"\n">>) >>
\* RTFToMarkdown after it: the remaining control words, the braces, the
\* escaped characters, the white space
AfterHeadings ==
    << controlWordRe,
       Literal(<<"{">>, <<>>), Literal(<<"}">>, <<>>),
       Literal(<<BS,BS>>, <<BS>>), Literal(<<BS,"{">>, <<"{">>), Literal(<<BS,"}">>, <<"}">>),
       multiSpaceRe, multiNewlineRe >>
RTFToMarkdown(rtfContent) ==
    TrimSpace(TrimLines(ReplaceEach(AfterHeadings,
        convertFontSizesToHeadings(ReplaceEach(BeforeHeadings, rtfContent)))))

(***************************************************************************)
(* The checked instance: one enabled folder mapping, a few file names and  *)
(* document titles, and one text typed by the user on each side.           *)
(***************************************************************************)
\* runs of the tool that execute a plan (the clock ticks once per such run)
MaxRuns == 2
\* edits made by the user between runs
MaxEdits == 2
\* writes that fail
MaxFaults == 1

\* config.FolderMapping{MarkdownDir, ScrivenerFolder, SyncEnabled: true}
MarkdownDir == <<"c","h">>
ScrivenerFolder == <<"C","h">>
\* names of the markdown files the user creates in the mapped directory
FileNames == { <<"a","-","b",".","m","d">>, <<"c",".","m","d">> }
\* titles the user gives to documents created in Scrivener
DocTitles == { <<"A"," ","B">>, <<"C">> }
\* the titles the user renames a document to: one of these, or one that
\* titleFromFilename(sanitizeFilename(title)) does not give back
RenameTitles == DocTitles \cup { <<"A","-","B">> }
\* what the user types into a markdown file, and into a Scrivener document
MdText == <<"a">>
ScrivText == <<"b">>
\* the Scrivener project path of the configuration
ScrivPath == "novel.scriv"

\* filepath.Join(dir, name)
PathJoin(dir, name) == dir \o <<"/">> \o name
Paths == { PathJoin(MarkdownDir, n) : n \in FileNames }

\* the printable characters in byte order (the order filepath.Walk lists names in)
Ascii == <<" ","!","\"","#","$","%","&","'","(",")","*","+",",","-",".","/",
           "0","1","2","3","4","5","6","7","8","9",":",";","<","=",">","?","@",
           "A","B","C","D","E","F","G","H","I","J","K","L","M",
           "N","O","P","Q","R","S","T","U","V","W","X","Y","Z",
           "[","\\","]","^","_",
           "a","b","c","d","e","f","g","h","i","j","k","l","m",
           "n","o","p","q","r","s","t","u","v","w","x","y","z","{","|","}","~">>
ByteOf(ch) == IndexIn(Ascii, ch)
\* s < t as Go compares strings
StrLess(s, t) ==
    \E k \in 1..(Len(t)) :
        /\ \A j \in 1..(k - 1) : j <= Len(s) /\ s[j] = t[j]
        /\ k - 1 <= Len(s)
        /\ (k > Len(s) \/ ByteOf(s[k]) < ByteOf(t[k]))

\* Go maps: a function whose domain is the set of keys present
MapPut(m, k, v) == [x \in (DOMAIN m) \cup {k} |-> IF x = k THEN v ELSE m[x]]
MapDel(m, k) == [x \in (DOMAIN m) \ {k} |-> m[x]]
EmptyMap == <<>>

(***************************************************************************)
(* The persisted sync State (package sync, state).                         *)
(***************************************************************************)
\* computeHash / Document.ContentHash: MD5 of the content, taken as injective
computeHash(content) == [md5 |-> content]
ContentHash(doc) == [md5 |-> doc.Content]

ConflictNone == "none"
ConflictMarkdownOnly == "markdown_modified"
ConflictScrivenerOnly == "scrivener_modified"
ConflictBoth == "both_modified"
ConflictNewFile == "new_file"

\* NewState: no last sync time (a nil pointer is the empty sequence), empty maps
NewState == [LastSync |-> <<>>, Files |-> EmptyMap, ScrivPath |-> "",
             DeletedFiles |-> EmptyMap]
\* time.Now(): a wall clock reading and a monotonic clock reading
TimeNow(t) == [wall |-> t, monotonic |-> TRUE]
\* Time.Equal: the same instant
TimeEqual(a, b) == a.wall = b.wall
\* Time.MarshalJSON and Time.UnmarshalJSON: the text holds the wall clock reading
\* only, a time read back has no monotonic clock reading
MarshalTime(t) == [rfc3339 |-> t.wall]
UnmarshalTime(text) == [wall |-> text.rfc3339, monotonic |-> FALSE]
\* json.Marshal and json.Unmarshal of a FileState: the four tagged fields
MarshalFileState(fs) ==
    [scriv_uuid |-> fs.ScrivUUID, content_hash |-> fs.ContentHash,
     modified_time |-> fs.ModifiedTime, last_synced |-> fs.LastSynced]
UnmarshalFileState(o) ==
    [ScrivUUID |-> o.scriv_uuid, ContentHash |-> o.content_hash,
     ModifiedTime |-> o.modified_time, LastSynced |-> o.last_synced]
MarshalFiles(m) == [k \in DOMAIN m |-> MarshalFileState(m[k])]
UnmarshalFiles(o) == [k \in DOMAIN o |-> UnmarshalFileState(o[k])]
\* json.MarshalIndent of a State without its tombstones
MarshalStateNoTombstones(s) ==
    [last_sync |-> IF s.LastSync = <<>> THEN <<>> ELSE <<MarshalTime(s.LastSync[1])>>,
     files |-> MarshalFiles(s.Files), scriv_path |-> s.ScrivPath]
\* json.MarshalIndent of a State: the exported fields under their tags, a nil
\* last_sync as null, deleted_files left out when the map is empty (omitempty)
MarshalState(s) ==
    IF DOMAIN s.DeletedFiles = {}
    THEN [last_sync |-> IF s.LastSync = <<>> THEN <<>> ELSE <<MarshalTime(s.LastSync[1])>>,
          files |-> MarshalFiles(s.Files), scriv_path |-> s.ScrivPath]
    ELSE [last_sync |-> IF s.LastSync = <<>> THEN <<>> ELSE <<MarshalTime(s.LastSync[1])>>,
          files |-> MarshalFiles(s.Files), scriv_path |-> s.ScrivPath,
          deleted_files |-> MarshalFiles(s.DeletedFiles)]
\* json.Unmarshal into a State, then LoadState's "Initialize maps if nil"
UnmarshalState(o) ==
    [LastSync |-> IF o.last_sync = <<>> THEN <<>> ELSE <<UnmarshalTime(o.last_sync[1])>>,
     Files |-> UnmarshalFiles(o.files), ScrivPath |-> o.scriv_path,
     DeletedFiles |-> IF "deleted_files" \in DOMAIN o THEN UnmarshalFiles(o.deleted_files)
                      ELSE EmptyMap]
\* State.Save: the bytes of the state file
Save(s) == <<MarshalState(s)>>
\* what os.WriteFile leaves of the state file when the process ends after the file
\* was truncated and before all bytes were written: none of the bytes, or a prefix
TornFile(kept) == <<[torn |-> kept]>>
\* json.Unmarshal fails on the bytes of the state file ("failed to parse state file")
LoadStateFails(file) == file # <<>> /\ "torn" \in DOMAIN file[1]
\* LoadState had a missing state file loaded as a State synced at time zero
LoadStateStamped(file) ==
    IF file = <<>> THEN [NewState EXCEPT !.LastSync = <<UnmarshalTime(MarshalTime(TimeNow(0)))>>]
    ELSE UnmarshalState(file[1])
\* LoadState: a missing state file (the empty sequence) loads as NewState
LoadState(file) == IF file = <<>> THEN NewState ELSE UnmarshalState(file[1])
\* State.SetScrivPath
SetScrivPath(s, path) == [s EXCEPT !.ScrivPath = path]
\* State.UpdateLastSync
UpdateLastSync(s, t) == [s EXCEPT !.LastSync = <<TimeNow(t)>>]
\* RecordFile had it left a tombstone of the path in place
RecordFileKeepsTombstone(s, mdPath, scrivUUID, hash, modified, t) ==
    [s EXCEPT !.Files = MapPut(@, mdPath, [ScrivUUID |-> scrivUUID, ContentHash |-> hash,
                                           ModifiedTime |-> modified, LastSynced |-> t])]
\* State.RecordFile: time.Now() is t
RecordFile(s, mdPath, scrivUUID, hash, modified, t) ==
    [s EXCEPT !.Files = MapPut(@, mdPath, [ScrivUUID |-> scrivUUID, ContentHash |-> hash,
                                           ModifiedTime |-> modified, LastSynced |-> t]),
              !.DeletedFiles = MapDel(@, mdPath)]
\* RemoveFile had it dropped the live entry without keeping a tombstone
RemoveFileForgets(s, mdPath) == [s EXCEPT !.Files = MapDel(@, mdPath)]
\* RemoveFile had it left the live entry in place
RemoveFileKeepsLive(s, mdPath) ==
    IF mdPath \in DOMAIN s.Files
    THEN [s EXCEPT !.DeletedFiles = MapPut(@, mdPath, s.Files[mdPath])]
    ELSE s
\* State.RemoveFile
RemoveFile(s, mdPath) ==
    IF mdPath \in DOMAIN s.Files
    THEN [s EXCEPT !.DeletedFiles = MapPut(@, mdPath, s.Files[mdPath]),
                   !.Files = MapDel(@, mdPath)]
    ELSE s
\* State.GetFileState / GetDeletedFileState: nil is the empty sequence
GetFileState(s, mdPath) ==
    IF mdPath \in DOMAIN s.Files THEN <<s.Files[mdPath]>> ELSE <<>>
GetDeletedFileState(s, mdPath) ==
    IF mdPath \in DOMAIN s.DeletedFiles THEN <<s.DeletedFiles[mdPath]>> ELSE <<>>
\* State.WasPreviouslySynced
WasPreviouslySynced(s, mdPath) ==
    LET inFiles   == mdPath \in DOMAIN s.Files
        inDeleted == mdPath \in DOMAIN s.DeletedFiles
    IN  inFiles \/ inDeleted
\* DetectConflict had it compared the two sides with each other for the
\* Scrivener side instead of comparing each with the recorded hash
DetectConflictSidesCompared(s, mdPath, mdHash, scrivUUID, scrivHash) ==
    LET fs == GetFileState(s, mdPath)
    IN  IF fs = <<>>
        THEN IF GetDeletedFileState(s, mdPath) # <<>> THEN ConflictBoth
             ELSE ConflictNewFile
        ELSE LET mdChanged    == fs[1].ContentHash # mdHash
                 scrivChanged == mdHash # scrivHash
             IN  IF mdChanged /\ scrivChanged THEN ConflictBoth
                 ELSE IF mdChanged THEN ConflictMarkdownOnly
                 ELSE IF scrivChanged THEN ConflictScrivenerOnly
                 ELSE ConflictNone
\* DetectConflict had it compared the two hashes with the hash of the tombstone
\* of a path that has no live entry
DetectConflictTombstoneCompared(s, mdPath, mdHash, scrivUUID, scrivHash) ==
    LET fs == IF GetFileState(s, mdPath) # <<>> THEN GetFileState(s, mdPath)
              ELSE GetDeletedFileState(s, mdPath)
    IN  IF fs = <<>>
        THEN ConflictNewFile
        ELSE LET mdChanged    == fs[1].ContentHash # mdHash
                 scrivChanged == fs[1].ContentHash # scrivHash
             IN  IF mdChanged /\ scrivChanged THEN ConflictBoth
                 ELSE IF mdChanged THEN ConflictMarkdownOnly
                 ELSE IF scrivChanged THEN ConflictScrivenerOnly
                 ELSE ConflictNone
\* State.DetectConflict
DetectConflict(s, mdPath, mdHash, scrivUUID, scrivHash) ==
    LET fs == GetFileState(s, mdPath)
    IN  IF fs = <<>>
        THEN IF GetDeletedFileState(s, mdPath) # <<>> THEN ConflictBoth
             ELSE ConflictNewFile
        ELSE LET mdChanged    == fs[1].ContentHash # mdHash
                 scrivChanged == fs[1].ContentHash # scrivHash
             IN  IF mdChanged /\ scrivChanged THEN ConflictBoth
                 ELSE IF mdChanged THEN ConflictMarkdownOnly
                 ELSE IF scrivChanged THEN ConflictScrivenerOnly
                 ELSE ConflictNone
\* State.GetUUIDForPath
GetUUIDForPath(s, mdPath) ==
    IF GetFileState(s, mdPath) # <<>> THEN GetFileState(s, mdPath)[1].ScrivUUID ELSE ""
\* State.AllTrackedPaths, as a set: the order of the slice is the map's iteration order
AllTrackedPaths(s) == DOMAIN s.Files

(***************************************************************************)
(* The conversions on the texts of the instance, computed once.            *)
(***************************************************************************)
\* the RTF document Scrivener itself stores for a text typed by the user
\* A content file (Files/Data/<UUID>/content.rtf) is held as who wrote it and
\* from which text; Bytes is what the file contains.  Scrivener saves the text
\* of a document as RTF that RTFToMarkdown reads back as typed; the Writer
\* saves rtf.MarkdownToRTF(content).
ContentFile(by, text) == [by |-> by, text |-> text]
AppRTF(text) == ContentFile("scrivener", text)
Bytes(file) ==
    IF file.by = "writer" THEN MarkdownToRTF(file.text)
    ELSE <<"{",BS,"r","t","f","1",BS,"a","n","s","i"," ">> \o file.text \o <<"}">>
\* What the Reader gets from each content file that can exist: the files
\* Scrivener wrote, and the files the Writer wrote from any text that can be
\* read back, to the depth of MaxRuns + 2 writes of a read-back text.
RECURSIVE ReadBackClosure(_, _)
ReadBackStep(table, n) ==
    IF n = 0 THEN table
    ELSE ReadBackClosure(DOMAIN table \cup {ContentFile("writer", table[f]) : f \in DOMAIN table},
                         n - 1)
ReadBackClosure(files, n) == ReadBackStep([f \in files |-> RTFToMarkdown(Bytes(f))], n)
RTFToMarkdownTable == ReadBackClosure({AppRTF(ScrivText), AppRTF(MdText)}, MaxRuns + 2)
TitleTable == [p \in Paths |-> titleFromFilename(Base(p))]
SanitizeTable ==
    [t \in DocTitles \cup RenameTitles \cup {TitleTable[p] : p \in Paths} |-> sanitizeFilename(t)]
\* rtf.MarkdownToRTF(content) as the Writer calls it
WriteRTF(content) == ContentFile("writer", content)
\* rtf.RTFToMarkdown(string(data)) as the Reader calls it
ReadRTF(file) == RTFToMarkdownTable[file]
\* titleFromFilename(filepath.Base(mdPath))
TitleOfPath(mdPath) == TitleTable[mdPath]
\* sanitizeFilename(doc.Title) + ".md"
FileNameOfTitle(title) == SanitizeTable[title] \o <<".","m","d">>

(***************************************************************************)
(* The Scrivener project (package scrivener).  The binder is the sequence  *)
(* of its items in document order; Parent is the UUID of the item an item  *)
(* is a child of ("" at the top level).  Files/Data/<UUID>/content.rtf is  *)
(* data[UUID].                                                             *)
(***************************************************************************)
BinderItem(uuid, type, title, parent) ==
    [UUID |-> uuid, Type |-> type, Title |-> title, Parent |-> parent]
\* Document.IsFolder
IsFolder(d) == d.DocType = "folder"
\* Reader.readDocumentContent; parseBinderItem turns the error into ""
readDocumentContent(data, uuid) ==
    IF uuid \in DOMAIN data THEN ReadRTF(data[uuid]) ELSE <<>>
\* Reader.parseBinderItem
parseBinderItem(item, data) ==
    [UUID |-> item.UUID, Title |-> item.Title,
     Content |-> readDocumentContent(data, item.UUID),
     DocType |-> IF item.Type \in {"Folder", "DraftFolder", "ResearchFolder", "TrashFolder"}
                 THEN "folder" ELSE "document",
     Parent |-> item.Parent]
\* Reader.GetBinderStructure: the documents of the project the Reader parsed when
\* it was created, with the contents the data files hold now
GetBinderStructure(project, data) ==
    [i \in DOMAIN project |-> parseBinderItem(project[i], data)]
\* Document.Children
Children(docs, uuid) == SelectSeq(docs, LAMBDA d : d.Parent = uuid)
\* the documents below the given siblings, depth first
RECURSIVE Preorder(_, _)
Preorder(docs, siblings) ==
    IF siblings = <<>> THEN <<>>
    ELSE <<Head(siblings)>> \o Preorder(docs, Children(docs, Head(siblings).UUID))
         \o Preorder(docs, Tail(siblings))
\* Reader.findFolderInDocs from the top level: nil is the empty sequence
findFolderInDocs(docs, title) ==
    LET all   == Preorder(docs, Children(docs, ""))
        found == SelectSeq(all, LAMBDA d : IsFolder(d) /\ ToLower(d.Title) = ToLower(title))
    IN  IF found = <<>> THEN <<>> ELSE <<found[1]>>
\* Reader.FindFolderByTitle: the error is GetBinderStructure's, which has none; a
\* folder that is not there is a nil document and no error
FindFolderByTitle(docs, title) == [doc |-> findFolderInDocs(docs, title), err |-> FALSE]
\* Reader.GetAllDocuments
GetAllDocuments(docs) ==
    SelectSeq(Preorder(docs, Children(docs, "")), LAMBDA d : ~IsFolder(d))
\* Writer.findFolderUUID from the top level ("" when there is none)
findFolderUUID(items, title) ==
    LET all   == Preorder(items, Children(items, ""))
        found == SelectSeq(all, LAMBDA it :
                     /\ it.Type \in {"Folder", "DraftFolder", "ResearchFolder"}
                     /\ ToLower(it.Title) = ToLower(title))
    IN  IF found = <<>> THEN "" ELSE found[1].UUID
\* Writer.generateUUID: a UUID no item has had, named by a counter
generateUUID(n) == ToString(n)
\* Writer.addToParent succeeds
HasItem(items, uuid) == \E i \in DOMAIN items : items[i].UUID = uuid

(***************************************************************************)
(* The Plan (package sync, plan).                                          *)
(***************************************************************************)
NewPlan == [ToCreateInScriv |-> <<>>, ToCreateInMarkdown |-> <<>>,
            ToUpdateInScriv |-> <<>>, ToUpdateInMarkdown |-> <<>>,
            Conflicts |-> <<>>, Orphans |-> <<>>]
FileChange(mdPath, scrivUUID, title, content) ==
    [MarkdownPath |-> mdPath, ScrivUUID |-> scrivUUID, Title |-> title, Content |-> content]
AddCreateInScriv(p, mdPath, title, content) ==
    [p EXCEPT !.ToCreateInScriv = Append(@, FileChange(mdPath, "", title, content))]
AddCreateInMarkdown(p, mdPath, scrivUUID, title, content) ==
    [p EXCEPT !.ToCreateInMarkdown = Append(@, FileChange(mdPath, scrivUUID, title, content))]
AddUpdateInScriv(p, mdPath, scrivUUID, title, content) ==
    [p EXCEPT !.ToUpdateInScriv = Append(@, FileChange(mdPath, scrivUUID, title, content))]
AddUpdateInMarkdown(p, mdPath, scrivUUID, title, content) ==
    [p EXCEPT !.ToUpdateInMarkdown = Append(@, FileChange(mdPath, scrivUUID, title, content))]
AddConflict(p, mdPath, scrivUUID, title, mdContent, scrivContent) ==
    [p EXCEPT !.Conflicts = Append(@, [MarkdownPath |-> mdPath, ScrivUUID |-> scrivUUID,
                                       Title |-> title, MarkdownContent |-> mdContent,
                                       ScrivenerContent |-> scrivContent])]
\* AddOrphan had it set the bucket to the one orphan
AddOrphanAlone(p, path, location, scrivUUID, title, lastSync) ==
    [p EXCEPT !.Orphans = <<[Path |-> path, Location |-> location,
                             ScrivUUID |-> scrivUUID, Title |-> title,
                             LastSyncTime |-> lastSync]>>]
AddOrphan(p, path, location, scrivUUID, title, lastSync) ==
    [p EXCEPT !.Orphans = Append(@, [Path |-> path, Location |-> location,
                                     ScrivUUID |-> scrivUUID, Title |-> title,
                                     LastSyncTime |-> lastSync])]
TotalOperations(p) ==
    Len(p.ToCreateInScriv) + Len(p.ToCreateInMarkdown) + Len(p.ToUpdateInScriv)
    + Len(p.ToUpdateInMarkdown) + Len(p.Conflicts) + Len(p.Orphans)
IsEmpty(p) ==
    /\ Len(p.ToCreateInScriv) = 0 /\ Len(p.ToCreateInMarkdown) = 0
    /\ Len(p.ToUpdateInScriv) = 0 /\ Len(p.ToUpdateInMarkdown) = 0
    /\ Len(p.Conflicts) = 0 /\ Len(p.Orphans) = 0

(***************************************************************************)
(* Change detection (package sync, Syncer).                                *)
(***************************************************************************)
\* the orders in which a Go map or set of keys can be iterated
Orders(S) == {o \in [1..Cardinality(S) -> S] : Range(o) = S}
\* fileExists
fileExists(files, path) == path \in DOMAIN files
\* a set of strings as a sequence in lexical order
Sorted(S) == SortSeq(CHOOSE o \in Orders(S) : TRUE, StrLess)
\* Syncer.getMarkdownFiles: the .md files below dir, in the order filepath.Walk
\* visits them (a path ends in ".md" exactly when its base name does)
getMarkdownFiles(files, dir) ==
    Sorted({p \in DOMAIN files : /\ HasPrefixAt(p, 1, dir \o <<"/">>)
                                 /\ HasSuffix(p, <<".","m","d">>)})
\* scrivDocMapOf had the documents been keyed by the title of the file name their
\* title is written to
scrivDocMapOfFileNames(scrivDocs) ==
    LET docs == SelectSeq(scrivDocs, LAMBDA d : ~IsFolder(d))
        key(d) == ToLower(TitleTable[PathJoin(MarkdownDir, FileNameOfTitle(d.Title))])
    IN  [k \in {key(docs[i]) : i \in DOMAIN docs} |->
            docs[CHOOSE i \in DOMAIN docs :
                    /\ key(docs[i]) = k
                    /\ \A j \in DOMAIN docs : key(docs[j]) = k => j <= i]]
\* scrivDocMap: lower-case title -> document, a later document replacing an earlier one
scrivDocMapOf(scrivDocs) ==
    LET docs == SelectSeq(scrivDocs, LAMBDA d : ~IsFolder(d))
    IN  [k \in {ToLower(docs[i].Title) : i \in DOMAIN docs} |->
            docs[CHOOSE i \in DOMAIN docs :
                    /\ ToLower(docs[i].Title) = k
                    /\ \A j \in DOMAIN docs : ToLower(docs[j].Title) = k => j <= i]]
\* routeConflict had a first pairing been taken for a change of the markdown file
routeConflictOverwrites(conflict, plan, mdPath, title, mdContent, scrivDoc) ==
    CASE conflict = ConflictNewFile ->
           AddUpdateInScriv(plan, mdPath, scrivDoc.UUID, title, mdContent)
      [] conflict = ConflictMarkdownOnly ->
           AddUpdateInScriv(plan, mdPath, scrivDoc.UUID, title, mdContent)
      [] conflict = ConflictScrivenerOnly ->
           AddUpdateInMarkdown(plan, mdPath, scrivDoc.UUID, title, scrivDoc.Content)
      [] conflict = ConflictBoth ->
           AddConflict(plan, mdPath, scrivDoc.UUID, title, mdContent, scrivDoc.Content)
      [] OTHER -> plan
\* the switch on the conflict type, for a markdown file and the document its
\* title matches
routeConflict(conflict, plan, mdPath, title, mdContent, scrivDoc) ==
    CASE conflict = ConflictNewFile ->
           AddConflict(plan, mdPath, scrivDoc.UUID, title, mdContent, scrivDoc.Content)
      [] conflict = ConflictMarkdownOnly ->
           AddUpdateInScriv(plan, mdPath, scrivDoc.UUID, title, mdContent)
      [] conflict = ConflictScrivenerOnly ->
           AddUpdateInMarkdown(plan, mdPath, scrivDoc.UUID, title, scrivDoc.Content)
      [] conflict = ConflictBoth ->
           AddConflict(plan, mdPath, scrivDoc.UUID, title, mdContent, scrivDoc.Content)
      [] OTHER -> plan
\* "Exists in both - check for changes"
checkMatched(st, plan, mdPath, title, mdContent, scrivDoc) ==
    routeConflict(DetectConflict(st, mdPath, computeHash(mdContent), scrivDoc.UUID,
                                 ContentHash(scrivDoc)),
                  plan, mdPath, title, mdContent, scrivDoc)
\* "New markdown file - only create if not previously synced"
checkUnmatched(st, plan, mdPath, title, mdContent) ==
    IF ~WasPreviouslySynced(st, mdPath)
    THEN AddCreateInScriv(plan, mdPath, title, mdContent)
    ELSE plan
\* the loop "Check each markdown file" of detectChangesForMapping; a matched
\* document is deleted from scrivDocMap
RECURSIVE checkMarkdownFiles(_, _, _, _, _)
checkMarkdownFile(mdFiles, files, st, plan, scrivDocMap, mdPath, title) ==
    IF ToLower(title) \notin DOMAIN scrivDocMap
    THEN checkMarkdownFiles(Tail(mdFiles), files, st,
                            checkUnmatched(st, plan, mdPath, title, files[mdPath]),
                            scrivDocMap)
    ELSE checkMarkdownFiles(Tail(mdFiles), files, st,
                            checkMatched(st, plan, mdPath, title, files[mdPath],
                                         scrivDocMap[ToLower(title)]),
                            MapDel(scrivDocMap, ToLower(title)))
checkMarkdownFiles(mdFiles, files, st, plan, scrivDocMap) ==
    IF mdFiles = <<>> THEN [err |-> FALSE, plan |-> plan, scrivDocMap |-> scrivDocMap]
    ELSE checkMarkdownFile(mdFiles, files, st, plan, scrivDocMap, Head(mdFiles),
                           TitleOfPath(Head(mdFiles)))
\* scrivFolder.Children, nothing when the folder is new
folderDocs(docs, scrivFolder) ==
    IF scrivFolder # <<>> THEN Children(docs, scrivFolder[1].UUID) ELSE <<>>
\* detectChangesForMapping up to and including that loop: err is the error
\* "Scrivener folder not found", returned when FindFolderByTitle returned an
\* error and CreateMissingFolders is off
matchInFolder(st, files, docs, createMissing, plan, found) ==
    IF found.err /\ ~createMissing
    THEN [err |-> TRUE, plan |-> plan, scrivDocMap |-> EmptyMap]
    ELSE checkMarkdownFiles(getMarkdownFiles(files, MarkdownDir), files, st, plan,
                            scrivDocMapOf(folderDocs(docs, found.doc)))
matchMarkdownFiles(st, files, docs, createMissing, plan) ==
    matchInFolder(st, files, docs, createMissing, plan,
                  FindFolderByTitle(docs, ScrivenerFolder))
\* createUntracked had it not asked whether the path was synced before
createUntrackedAlways(st, plan, doc, mdPath) ==
    AddCreateInMarkdown(plan, mdPath, doc.UUID, doc.Title, doc.Content)
\* "New Scrivener doc - only create if not previously synced"
createUntracked(st, plan, doc, mdPath) ==
    IF ~WasPreviouslySynced(st, mdPath)
    THEN AddCreateInMarkdown(plan, mdPath, doc.UUID, doc.Title, doc.Content)
    ELSE plan
createForDoc(st, plan, doc) ==
    createUntracked(st, plan, doc, PathJoin(MarkdownDir, FileNameOfTitle(doc.Title)))
\* the loop "Remaining Scrivener docs" of detectChangesForMapping, the map being
\* iterated in the given order of its keys
RECURSIVE createRemaining(_, _, _, _)
createRemaining(st, plan, scrivDocMap, order) ==
    IF order = <<>> THEN plan
    ELSE createRemaining(st, createForDoc(st, plan, scrivDocMap[Head(order)]),
                         scrivDocMap, Tail(order))
\* Syncer.detectChangesForMapping
remainingAfter(st, plan, order, m) ==
    IF m.err THEN [err |-> TRUE, plan |-> plan]
    ELSE [err |-> FALSE, plan |-> createRemaining(st, m.plan, m.scrivDocMap, order)]
detectChangesForMapping(st, files, docs, createMissing, plan, order) ==
    remainingAfter(st, plan, order, matchMarkdownFiles(st, files, docs, createMissing, plan))
\* scrivDocExists had it taken every non-empty UUID for a document that exists
scrivDocExistsUnchecked(docs, uuid) == uuid # ""
\* Syncer.scrivDocExists
scrivDocExists(docs, uuid) ==
    /\ uuid # ""
    /\ \E i \in DOMAIN docs : ~IsFolder(docs[i]) /\ docs[i].UUID = uuid
\* time.Parse(fs.LastSynced) of the entry of a path, the zero time without one
lastSyncOf(fs) == IF fs # <<>> THEN fs[1].LastSynced ELSE 0
\* detectOrphan had it left the entry of a path gone on both sides in place
detectOrphanKeepsGone(st, plan, mdPath, mdExists, scrivExists) ==
    IF mdExists /\ ~scrivExists
    THEN [plan |-> AddOrphan(plan, mdPath, "markdown", GetUUIDForPath(st, mdPath),
                             TitleOfPath(mdPath), lastSyncOf(GetFileState(st, mdPath))),
          state |-> st]
    ELSE IF ~mdExists /\ scrivExists
    THEN [plan |-> AddOrphan(plan, mdPath, "scrivener", GetUUIDForPath(st, mdPath),
                             IF GetFileState(st, mdPath) # <<>> THEN TitleOfPath(mdPath)
                             ELSE <<>>,
                             lastSyncOf(GetFileState(st, mdPath))),
          state |-> st]
    ELSE [plan |-> plan, state |-> st]
\* the body of the loop of detectOrphans
detectOrphan(st, plan, mdPath, mdExists, scrivExists) ==
    IF mdExists /\ ~scrivExists
    THEN [plan |-> AddOrphan(plan, mdPath, "markdown", GetUUIDForPath(st, mdPath),
                             TitleOfPath(mdPath), lastSyncOf(GetFileState(st, mdPath))),
          state |-> st]
    ELSE IF ~mdExists /\ scrivExists
    THEN [plan |-> AddOrphan(plan, mdPath, "scrivener", GetUUIDForPath(st, mdPath),
                             IF GetFileState(st, mdPath) # <<>> THEN TitleOfPath(mdPath)
                             ELSE <<>>,
                             lastSyncOf(GetFileState(st, mdPath))),
          state |-> st]
    ELSE IF ~mdExists /\ ~scrivExists
    THEN [plan |-> plan, state |-> RemoveFile(st, mdPath)]
    ELSE [plan |-> plan, state |-> st]
\* Syncer.detectOrphans, the tracked paths being visited in the given order
RECURSIVE detectOrphans(_, _, _, _, _)
orphansAfter(files, docs, order, r) == detectOrphans(r.state, r.plan, files, docs, order)
detectOrphans(st, plan, files, docs, order) ==
    IF order = <<>> THEN [plan |-> plan, state |-> st]
    ELSE orphansAfter(files, docs, Tail(order),
                      detectOrphan(st, plan, Head(order), fileExists(files, Head(order)),
                                   scrivDocExists(docs, GetUUIDForPath(st, Head(order)))))
\* Syncer.detectAllChanges for the one enabled mapping: the plan, and the State
\* detection leaves in memory
detected(o) == [err |-> FALSE, plan |-> o.plan, state |-> o.state]
orphansOf(st, files, docs, pathOrder, m) ==
    IF m.err THEN [err |-> TRUE, plan |-> NewPlan, state |-> st]
    ELSE detected(detectOrphans(st, m.plan, files, docs, pathOrder))
detectAllChanges(st, files, docs, createMissing, docOrder, pathOrder) ==
    orphansOf(st, files, docs, pathOrder,
              detectChangesForMapping(st, files, docs, createMissing, NewPlan, docOrder))

(***************************************************************************)
(* The state of the program and of the two stores it reconciles.           *)
(***************************************************************************)
VARIABLES
    mdFiles,    \* the markdown directory: path -> content of the file
    binder,     \* project.scrivx on disk: the binder items
    dataFiles,  \* Files/Data on disk: UUID -> bytes of content.rtf
    stateFile,  \* the state file on disk: <<>> (none) or <<its JSON object>>
    uuidGen,    \* names the next UUID nobody has used
    now,        \* the clock: it ticks when a run starts to execute a plan
    edits,      \* how many edits the user has made
    faults,     \* how many writes have failed
    pc,         \* where the running command is: idle, ready, detected, exec, save
    opts,       \* the options of the run: the project config and the flags
    state,      \* Syncer.state, the State in memory
    plan,       \* the Plan detectAllChanges returned
    execPlan,   \* the Plan handed to executePlan
    step,       \* how many items of execPlan executePlan has been through
    wProject,   \* Writer.project: the binder in memory
    wModified,  \* Writer.modified
    rProject,   \* Reader.project: the binder as parsed by NewReader
    log,        \* what executePlan did for each item so far (its printed lines)
    hist,       \* how the previous run that executed a plan ended: the items it
                \* left untouched, the paths it acted on and what it did for them,
                \* any edit by the user since; after an error, the items of its plan
                \* and how many it had done; the preview the last command printed
                \* instead, if it executed nothing
    call        \* the last direct call of a State method, with its result

world == <<mdFiles, binder, dataFiles, uuidGen>>
run == <<pc, opts, state, plan, execPlan, step, wProject, wModified, rProject, log>>
vars == <<mdFiles, binder, dataFiles, stateFile, uuidGen, now, edits, faults, pc, opts, state,
          plan, execPlan, step, wProject, wModified, rProject, log, hist, call>>

\* config.Options and the command line of a run
Invocation(cmd, dryRun, interactive, createMissing, conflictResolution, deletionAction) ==
    [cmd |-> cmd, dryRun |-> dryRun, interactive |-> interactive,
     CreateMissingFolders |-> createMissing,
     DefaultConflictResolution |-> conflictResolution,
     DefaultDeletionAction |-> deletionAction]
\* config.DefaultOptions
NoOpts == Invocation("none", FALSE, TRUE, TRUE, "prompt", "prompt")
NoCall == [op |-> "none"]
\* no command is running
Idle ==
    /\ pc = "idle" /\ opts = NoOpts /\ state = NewState /\ plan = NewPlan
    /\ execPlan = NewPlan /\ step = 0 /\ wProject = <<>> /\ wModified = FALSE
    /\ rProject = <<>> /\ log = <<>>

\* DefaultConflictResolution and DefaultDeletionAction of the project config:
\* an interactive run never reads them
Defaults(interactive) ==
    IF interactive THEN {<<"prompt", "prompt">>}
    ELSE {<<"prompt", "prompt">>, <<"markdown", "delete">>, <<"scrivener", "recreate">>,
          <<"skip", "skip">>}

\* the binder of a project that has the mapped folder (or not) and one document
\* for each of the given titles in it
RECURSIVE InitialDocs(_, _, _)
InitialDocs(titles, folder, n) ==
    IF titles = <<>> THEN <<>>
    ELSE <<BinderItem(generateUUID(n), "Text", Head(titles), folder)>>
         \o InitialDocs(Tail(titles), folder, n + 1)
InitialBinder(hasFolder, titles) ==
    IF hasFolder
    THEN <<BinderItem(generateUUID(1), "Folder", ScrivenerFolder, "")>>
         \o InitialDocs(titles, generateUUID(1), 2)
    ELSE <<>>

\* Before the first run: the user has some markdown files and a Scrivener project
\* with some documents; nothing has been synced.
Init ==
    /\ \E F \in SUBSET Paths : mdFiles = [p \in F |-> MdText]
    /\ \E hasFolder \in BOOLEAN, T \in SUBSET DocTitles :
          /\ hasFolder \/ T = {}
          /\ binder = InitialBinder(hasFolder, SortSeq(CHOOSE o \in Orders(T) : TRUE, StrLess))
    /\ dataFiles = [u \in {binder[i].UUID : i \in {j \in DOMAIN binder : binder[j].Type = "Text"}}
                      |-> AppRTF(ScrivText)]
    /\ uuidGen = Len(binder) + 1
    /\ stateFile = <<>>
    /\ now = 0
    /\ edits = 0
    /\ faults = 0
    /\ Idle
    /\ hist = [last |-> "none", cmd |-> "none", untouched |-> {}, acted |-> {},
               edited |-> FALSE, items |-> <<>>, done |-> 0, did |-> {},
               preview |-> "none"]
    /\ call = NoCall

(***************************************************************************)
(* The user, between runs: edits of the markdown directory and of the      *)
(* Scrivener project.                                                      *)
(***************************************************************************)
UserEdit ==
    /\ pc = "idle"
    /\ edits < MaxEdits
    /\ edits' = edits + 1
    /\ hist' = [hist EXCEPT !.edited = TRUE, !.preview = "none"]
    /\ UNCHANGED <<stateFile, now, faults, run, call>>
\* the user writes a markdown file (new, or changed)
UserWriteFile(p) ==
    /\ UserEdit
    /\ ~(p \in DOMAIN mdFiles /\ mdFiles[p] = MdText)
    /\ mdFiles' = MapPut(mdFiles, p, MdText)
    /\ UNCHANGED <<binder, dataFiles, uuidGen>>
\* the user deletes a markdown file
UserRemoveFile(p) ==
    /\ UserEdit
    /\ p \in DOMAIN mdFiles
    /\ mdFiles' = MapDel(mdFiles, p)
    /\ UNCHANGED <<binder, dataFiles, uuidGen>>
\* the user changes the text of a document in Scrivener
UserEditDocument(u) ==
    /\ UserEdit
    /\ \E i \in DOMAIN binder : binder[i].UUID = u /\ binder[i].Type = "Text"
    /\ ~(u \in DOMAIN dataFiles /\ dataFiles[u] = AppRTF(ScrivText))
    /\ dataFiles' = MapPut(dataFiles, u, AppRTF(ScrivText))
    /\ UNCHANGED <<mdFiles, binder, uuidGen>>
\* the user deletes a document in Scrivener (and empties the trash)
UserDeleteDocument(u) ==
    /\ UserEdit
    /\ \E i \in DOMAIN binder : binder[i].UUID = u /\ binder[i].Type = "Text"
    /\ binder' = SelectSeq(binder, LAMBDA it : it.UUID # u)
    /\ dataFiles' = MapDel(dataFiles, u)
    /\ UNCHANGED <<mdFiles, uuidGen>>
\* the user adds a document to the mapped folder in Scrivener, under a title no
\* document of the folder has
UserCreateDocument(title) ==
    LET folder == findFolderUUID(binder, ScrivenerFolder)
    IN  /\ UserEdit
        /\ folder # ""
        /\ \A i \in DOMAIN binder :
              binder[i].Parent = folder => ToLower(binder[i].Title) # ToLower(title)
        /\ binder' = Append(binder, BinderItem(generateUUID(uuidGen), "Text", title, folder))
        /\ dataFiles' = MapPut(dataFiles, generateUUID(uuidGen), AppRTF(ScrivText))
        /\ uuidGen' = uuidGen + 1
        /\ UNCHANGED mdFiles

\* the user renames a document in Scrivener, to a title no document next to it has
UserRenameDocument(u, title) ==
    /\ UserEdit
    /\ \E i \in DOMAIN binder :
          /\ binder[i].UUID = u /\ binder[i].Type = "Text"
          /\ \A j \in DOMAIN binder :
                binder[j].Parent = binder[i].Parent => ToLower(binder[j].Title) # ToLower(title)
          /\ binder' = [binder EXCEPT ![i].Title = title]
    /\ UNCHANGED <<mdFiles, dataFiles, uuidGen>>
\* the user drags a document out of the mapped folder, to the top of the binder
UserMoveDocument(u) ==
    /\ UserEdit
    /\ \E i \in DOMAIN binder :
          /\ binder[i].UUID = u /\ binder[i].Type = "Text" /\ binder[i].Parent # ""
          /\ binder' = [binder EXCEPT ![i].Parent = ""]
    /\ UNCHANGED <<mdFiles, dataFiles, uuidGen>>

(***************************************************************************)
(* A run of the tool: NewSyncerForAlias, detectAllChanges, then the        *)
(* command (Sync, Pull, Push or Status) and executePlan item by item.      *)
(***************************************************************************)
\* the items of a plan in the order executePlan goes through them
Tagged(p, kind) == [i \in DOMAIN p[kind] |-> [kind |-> kind, item |-> p[kind][i]]]
\* Items had executePlan made the creates before it handled the conflicts
ItemsCreatesFirst(p) ==
    Tagged(p, "ToCreateInScriv") \o Tagged(p, "ToCreateInMarkdown") \o Tagged(p, "Conflicts")
    \o Tagged(p, "ToUpdateInScriv") \o Tagged(p, "ToUpdateInMarkdown") \o Tagged(p, "Orphans")
Items(p) ==
    Tagged(p, "Conflicts") \o Tagged(p, "ToCreateInScriv") \o Tagged(p, "ToCreateInMarkdown")
    \o Tagged(p, "ToUpdateInScriv") \o Tagged(p, "ToUpdateInMarkdown") \o Tagged(p, "Orphans")
\* executePlan left the item as it was: skipped, not resolved, or not implemented
Untouched(e) ==
    \/ e.res \in {"skip", "prompt"}
    \/ e.kind = "Orphans" /\ e.res = "delete" /\ e.item.Location = "scrivener"
\* the markdown path of the item executePlan went through
PathOfItem(e) == IF e.kind = "Orphans" THEN e.item.Path ELSE e.item.MarkdownPath
\* the command returns: the process ends and what it held in memory is gone
Return ==
    /\ pc' = "idle" /\ opts' = NoOpts /\ state' = NewState /\ plan' = NewPlan
    /\ execPlan' = NewPlan /\ step' = 0 /\ wProject' = <<>> /\ wModified' = FALSE
    /\ rProject' = <<>> /\ log' = <<>>
\* the command returns after it printed a plan it did not execute
Preview(how) ==
    /\ Return
    /\ hist' = [hist EXCEPT !.preview = how]
\* executePlan returns: how it ended is what the next run starts from
ReturnFrom(how) ==
    /\ Return
    /\ hist' = [last |-> how, cmd |-> opts.cmd, edited |-> FALSE,
                untouched |-> {log[i] : i \in {j \in DOMAIN log : Untouched(log[j])}},
                acted |-> {PathOfItem(log[i]) : i \in {j \in DOMAIN log : ~Untouched(log[j])}},
                items |-> IF how = "error" THEN Items(execPlan) ELSE <<>>,
                done |-> IF how = "error" THEN step ELSE 0,
                did |-> {[kind |-> log[i].kind, res |-> log[i].res,
                          path |-> PathOfItem(log[i]), uuid |-> log[i].uuid,
                          loc |-> IF log[i].kind = "Orphans" THEN log[i].item.Location
                                  ELSE ""] :
                            i \in {j \in DOMAIN log : ~Untouched(log[j])}},
                preview |-> "none"]

\* NewSyncer: the Reader and the Writer parse the project, the State is loaded.
\* The options of the project config and the flags of the command line are the
\* inputs of a run; each is drawn where the run first reads it.
NewSyncerForAlias ==
    /\ pc = "idle"
    /\ IF LoadStateFails(stateFile)
       THEN UNCHANGED <<pc, state, rProject, wProject, wModified>>
       ELSE /\ pc' = "ready"
            /\ rProject' = binder
            /\ wProject' = binder
            /\ wModified' = FALSE
            /\ state' = SetScrivPath(LoadState(stateFile), ScrivPath)
    /\ hist' = [hist EXCEPT !.preview = "none"]
    /\ UNCHANGED <<world, stateFile, now, edits, faults, opts, plan, execPlan, step, log, call>>

\* what is left in scrivDocMap after the loop over the markdown files
unmatched(docs) == matchMarkdownFiles(state, mdFiles, docs, TRUE, NewPlan).scrivDocMap
\* the end of detectAllChanges: an error (folder not found) ends the command
Detected(createMissing, d) ==
    IF d.err
    THEN Return
    ELSE /\ pc' = "detected"
         /\ plan' = d.plan
         /\ state' = d.state
         /\ opts' = [opts EXCEPT !.CreateMissingFolders = createMissing]
         /\ UNCHANGED <<execPlan, step, wProject, wModified, rProject, log>>
\* s.detectAllChanges() for the documents the Reader returns, Go iterating
\* scrivDocMap and the tracked paths in some order
DetectIn(docs, createMissing) ==
    \E docOrder \in Orders(DOMAIN unmatched(docs)),
       pathOrder \in Orders(AllTrackedPaths(state)) :
       Detected(createMissing,
                detectAllChanges(state, mdFiles, docs, createMissing, docOrder, pathOrder))
\* DetectAllChanges had it saved the State it leaves in memory
DetectAllChangesSaving ==
    /\ pc = "ready"
    /\ \E createMissing \in BOOLEAN :
          /\ createMissing \/ findFolderUUID(rProject, ScrivenerFolder) = ""
          /\ DetectIn(GetBinderStructure(rProject, dataFiles), createMissing)
    /\ stateFile' = Save(state')
    /\ UNCHANGED <<world, now, edits, faults, hist, call>>
\* s.detectAllChanges(), the first statement of Sync, Pull, Push and Status
DetectAllChanges ==
    /\ pc = "ready"
    /\ \E createMissing \in BOOLEAN :
          /\ createMissing \/ findFolderUUID(rProject, ScrivenerFolder) = ""
          /\ DetectIn(GetBinderStructure(rProject, dataFiles), createMissing)
    /\ UNCHANGED <<world, stateFile, now, edits, faults, hist, call>>

\* Command had it executed the plan of a dry run
CommandIgnoresDryRun(cmd, p, dryRun, interactive) ==
    /\ pc = "detected"
    /\ IF IsEmpty(p)
       THEN Preview("none") /\ UNCHANGED now
       ELSE /\ now < MaxRuns
            /\ now' = now + 1
            /\ pc' = "exec"
            /\ execPlan' = p
            /\ \E d \in Defaults(interactive) :
                  opts' = Invocation(cmd, dryRun, interactive, opts.CreateMissingFolders,
                                     d[1], d[2])
            /\ UNCHANGED <<state, plan, step, wProject, wModified, rProject, log, hist>>
    /\ UNCHANGED <<world, stateFile, edits, faults, call>>
\* the rest of a command once the plan is there: nothing to do, dry run, or
\* executePlan(p, interactive)
Command(cmd, p, dryRun, interactive) ==
    /\ pc = "detected"
    /\ IF IsEmpty(p) \/ dryRun
       THEN Preview(IF IsEmpty(p) THEN "none" ELSE "dry-run") /\ UNCHANGED now
       ELSE /\ now < MaxRuns
            /\ now' = now + 1
            /\ pc' = "exec"
            /\ execPlan' = p
            /\ \E d \in Defaults(interactive) :
                  opts' = Invocation(cmd, dryRun, interactive, opts.CreateMissingFolders,
                                     d[1], d[2])
            /\ UNCHANGED <<state, plan, step, wProject, wModified, rProject, log, hist>>
    /\ UNCHANGED <<world, stateFile, edits, faults, call>>
\* Syncer.Sync
Sync(dryRun, interactive) == Command("sync", plan, dryRun, interactive)
\* pullPlan had the conflicts of the full plan been taken along
pullPlanWithConflicts(p) ==
    [NewPlan EXCEPT !.ToCreateInMarkdown = p.ToCreateInMarkdown,
                    !.ToUpdateInMarkdown = p.ToUpdateInMarkdown,
                    !.Conflicts = p.Conflicts,
                    !.Orphans = SelectSeq(p.Orphans, LAMBDA o : o.Location = "markdown")]
\* Syncer.Pull
pullPlan(p) ==
    [NewPlan EXCEPT !.ToCreateInMarkdown = p.ToCreateInMarkdown,
                    !.ToUpdateInMarkdown = p.ToUpdateInMarkdown,
                    !.Orphans = SelectSeq(p.Orphans, LAMBDA o : o.Location = "markdown")]
Pull(dryRun, interactive) == Command("pull", pullPlan(plan), dryRun, interactive)
\* Syncer.Push
pushPlan(p) ==
    [NewPlan EXCEPT !.ToCreateInScriv = p.ToCreateInScriv,
                    !.ToUpdateInScriv = p.ToUpdateInScriv,
                    !.Orphans = SelectSeq(p.Orphans, LAMBDA o : o.Location = "scrivener")]
Push(dryRun, interactive) == Command("push", pushPlan(plan), dryRun, interactive)
\* Syncer.Status
Status ==
    /\ pc = "detected"
    /\ Preview(IF IsEmpty(plan) THEN "none" ELSE "status")
    /\ UNCHANGED <<world, stateFile, now, edits, faults, call>>

(***************************************************************************)
(* executePlan, one plan item at a time.                                   *)
(***************************************************************************)
\* executePlan is at an item of the given kind
At(kind) ==
    /\ pc = "exec"
    /\ step < Len(Items(execPlan))
    /\ Items(execPlan)[step + 1].kind = kind
Current == Items(execPlan)[step + 1].item
\* the item is done: on to the next
Done(res, uuid) ==
    /\ step' = step + 1
    /\ log' = Append(log, [kind |-> Items(execPlan)[step + 1].kind, res |-> res,
                           item |-> Current, uuid |-> uuid])
    /\ UNCHANGED <<pc, opts, plan, execPlan, rProject, stateFile, now, edits, faults, hist,
                   call>>

\* recordSync had it hashed something other than the content written
recordSyncStale(s, mdPath, scrivUUID, content) ==
    RecordFile(s, mdPath, scrivUUID, computeHash(<<>>), now, now)
\* Syncer.recordSync
recordSync(s, mdPath, scrivUUID, content) ==
    RecordFile(s, mdPath, scrivUUID, computeHash(content), now, now)
\* Writer.UpdateDocumentContent(docUUID, content, true): the content file is
\* written at once
UpdateDocumentContent(data, docUUID, content) == MapPut(data, docUUID, WriteRTF(content))
\* resolveConflict had a configured default of "prompt" asked the operator
resolveConflictPromptsOnPrompt ==
    IF opts.interactive \/ opts.DefaultConflictResolution = "prompt"
    THEN {"markdown", "scrivener", "skip"}
    ELSE {opts.DefaultConflictResolution}
\* Syncer.resolveConflict
resolveConflict == IF opts.interactive THEN {"markdown", "scrivener", "skip"}
                   ELSE {opts.DefaultConflictResolution}
\* resolveOrphanAction
resolveOrphanAction ==
    IF opts.interactive THEN {"delete", "recreate", "skip"}
    ELSE IF opts.DefaultDeletionAction \in {"delete", "recreate", "skip"}
         THEN {opts.DefaultDeletionAction}
         ELSE {"skip"}
\* Syncer.ensureScrivenerFolder with Writer.FindFolderByTitle and Writer.CreateFolder:
\* the folder's UUID, the Writer's binder and the next unused UUID afterwards
ensureScrivenerFolder(items, n, mdPath) ==
    LET parts == Split(mdPath, "/")
        found == findFolderUUID(items, ScrivenerFolder)
    IN  IF Len(parts) < 2 \/ parts[1] # MarkdownDir
        THEN [err |-> FALSE, uuid |-> "", items |-> items, n |-> n, created |-> FALSE]
        ELSE IF found # ""
        THEN [err |-> FALSE, uuid |-> found, items |-> items, n |-> n, created |-> FALSE]
        ELSE IF opts.CreateMissingFolders
        THEN [err |-> FALSE, uuid |-> generateUUID(n),
              items |-> Append(items, BinderItem(generateUUID(n), "Folder",
                                                 ScrivenerFolder, "")),
              n |-> n + 1, created |-> TRUE]
        ELSE [err |-> TRUE, uuid |-> "", items |-> items, n |-> n, created |-> FALSE]
\* Writer.CreateDocument(title, content, parentUUID, true) in the folder f that
\* ensureScrivenerFolder(mdPath) returned, then recordSync: the binder item is
\* added in memory, the content file is written at once
CreateDocument(mdPath, title, content, f) ==
    /\ ~(f.uuid # "" /\ ~HasItem(f.items, f.uuid))
    /\ wProject' = Append(f.items, BinderItem(generateUUID(f.n), "Text", title, f.uuid))
    /\ wModified' = TRUE
    /\ dataFiles' = UpdateDocumentContent(dataFiles, generateUUID(f.n), content)
    /\ uuidGen' = f.n + 1
    /\ state' = recordSync(state, mdPath, generateUUID(f.n), content)
    /\ UNCHANGED <<mdFiles, binder>>
    /\ Done(IF Items(execPlan)[step + 1].kind = "Orphans" THEN "recreate" ELSE "done",
            generateUUID(f.n))
\* executePlan returns an error that is not a failed write: nothing is written
Abort ==
    /\ ReturnFrom("error")
    /\ UNCHANGED <<world, stateFile, now, edits, faults, call>>
CreateIn(mdPath, title, content, f) ==
    IF f.err THEN Abort ELSE CreateDocument(mdPath, title, content, f)
CreateInFolder(mdPath, title, content) ==
    CreateIn(mdPath, title, content, ensureScrivenerFolder(wProject, uuidGen, mdPath))

\* ExecConflict had a skipped conflict been recorded as synced
ExecConflictSkipRecords ==
    /\ At("Conflicts")
    /\ \E resolution \in resolveConflict :
        LET conflict == Current
        IN  /\ CASE resolution = "markdown" ->
                      /\ dataFiles' = UpdateDocumentContent(dataFiles, conflict.ScrivUUID,
                                                            conflict.MarkdownContent)
                      /\ state' = recordSync(state, conflict.MarkdownPath, conflict.ScrivUUID,
                                             conflict.MarkdownContent)
                      /\ UNCHANGED mdFiles
                 [] resolution = "scrivener" ->
                      /\ mdFiles' = MapPut(mdFiles, conflict.MarkdownPath,
                                           conflict.ScrivenerContent)
                      /\ state' = recordSync(state, conflict.MarkdownPath, conflict.ScrivUUID,
                                             conflict.ScrivenerContent)
                      /\ UNCHANGED dataFiles
                 [] OTHER ->
                      /\ state' = recordSync(state, conflict.MarkdownPath, conflict.ScrivUUID,
                                             conflict.MarkdownContent)
                      /\ UNCHANGED <<mdFiles, dataFiles>>
            /\ Done(resolution, conflict.ScrivUUID)
    /\ UNCHANGED <<binder, uuidGen, wProject, wModified>>
\* executePlan, "Handle conflicts first": one conflict
ExecConflict ==
    /\ At("Conflicts")
    /\ \E resolution \in resolveConflict :
        LET conflict == Current
        IN  /\ CASE resolution = "markdown" ->
                      /\ dataFiles' = UpdateDocumentContent(dataFiles, conflict.ScrivUUID,
                                                            conflict.MarkdownContent)
                      /\ state' = recordSync(state, conflict.MarkdownPath, conflict.ScrivUUID,
                                             conflict.MarkdownContent)
                      /\ UNCHANGED mdFiles
                 [] resolution = "scrivener" ->
                      /\ mdFiles' = MapPut(mdFiles, conflict.MarkdownPath,
                                           conflict.ScrivenerContent)
                      /\ state' = recordSync(state, conflict.MarkdownPath, conflict.ScrivUUID,
                                             conflict.ScrivenerContent)
                      /\ UNCHANGED dataFiles
                 [] OTHER -> UNCHANGED <<mdFiles, dataFiles, state>>
            /\ Done(resolution, conflict.ScrivUUID)
    /\ UNCHANGED <<binder, uuidGen, wProject, wModified>>
\* executePlan, "Create in Scrivener": one file
ExecCreateInScriv ==
    /\ At("ToCreateInScriv")
    /\ CreateInFolder(Current.MarkdownPath, Current.Title, Current.Content)
\* executePlan, "Create in markdown": one document
ExecCreateInMarkdown ==
    /\ At("ToCreateInMarkdown")
    /\ mdFiles' = MapPut(mdFiles, Current.MarkdownPath, Current.Content)
    /\ state' = recordSync(state, Current.MarkdownPath, Current.ScrivUUID, Current.Content)
    /\ Done("done", Current.ScrivUUID)
    /\ UNCHANGED <<binder, dataFiles, uuidGen, wProject, wModified>>
\* executePlan, "Update in Scrivener": one file
ExecUpdateInScriv ==
    /\ At("ToUpdateInScriv")
    /\ dataFiles' = UpdateDocumentContent(dataFiles, Current.ScrivUUID, Current.Content)
    /\ state' = recordSync(state, Current.MarkdownPath, Current.ScrivUUID, Current.Content)
    /\ Done("done", Current.ScrivUUID)
    /\ UNCHANGED <<mdFiles, binder, uuidGen, wProject, wModified>>
\* executePlan, "Update in markdown": one document
ExecUpdateInMarkdown ==
    /\ At("ToUpdateInMarkdown")
    /\ mdFiles' = MapPut(mdFiles, Current.MarkdownPath, Current.Content)
    /\ state' = recordSync(state, Current.MarkdownPath, Current.ScrivUUID, Current.Content)
    /\ Done("done", Current.ScrivUUID)
    /\ UNCHANGED <<binder, dataFiles, uuidGen, wProject, wModified>>
\* ExecOrphan had the file written for a document been left unrecorded
ExecOrphanRecreateUnrecorded ==
    /\ At("Orphans")
    /\ \E action \in resolveOrphanAction :
        LET orphan == Current
            docs   == GetAllDocuments(GetBinderStructure(rProject, dataFiles))
            hit    == SelectSeq(docs, LAMBDA d : d.UUID = orphan.ScrivUUID)
        IN  CASE action = "delete" /\ orphan.Location = "markdown" ->
                   /\ mdFiles' = MapDel(mdFiles, orphan.Path)
                   /\ state' = RemoveFile(state, orphan.Path)
                   /\ Done(action, orphan.ScrivUUID)
                   /\ UNCHANGED <<binder, dataFiles, uuidGen, wProject, wModified>>
              [] action = "recreate" /\ orphan.Location = "markdown" ->
                   /\ orphan.Path \in DOMAIN mdFiles
                   /\ CreateInFolder(orphan.Path, orphan.Title, mdFiles[orphan.Path])
              [] action = "recreate" /\ orphan.Location # "markdown" /\ hit # <<>> ->
                   /\ mdFiles' = MapPut(mdFiles, orphan.Path, hit[1].Content)
                   /\ Done(action, orphan.ScrivUUID)
                   /\ UNCHANGED <<binder, dataFiles, uuidGen, state, wProject, wModified>>
              [] OTHER ->
                   /\ Done(action, orphan.ScrivUUID)
                   /\ UNCHANGED <<mdFiles, binder, dataFiles, uuidGen, state, wProject,
                                  wModified>>
\* ExecOrphan had the entry of a deleted file been left in the State
ExecOrphanDeleteKeepsEntry ==
    /\ At("Orphans")
    /\ \E action \in resolveOrphanAction :
        LET orphan == Current
            docs   == GetAllDocuments(GetBinderStructure(rProject, dataFiles))
            hit    == SelectSeq(docs, LAMBDA d : d.UUID = orphan.ScrivUUID)
        IN  CASE action = "delete" /\ orphan.Location = "markdown" ->
                   /\ mdFiles' = MapDel(mdFiles, orphan.Path)
                   /\ Done(action, orphan.ScrivUUID)
                   /\ UNCHANGED <<binder, dataFiles, uuidGen, state, wProject, wModified>>
              [] action = "recreate" /\ orphan.Location = "markdown" ->
                   /\ orphan.Path \in DOMAIN mdFiles
                   /\ CreateInFolder(orphan.Path, orphan.Title, mdFiles[orphan.Path])
              [] action = "recreate" /\ orphan.Location # "markdown" /\ hit # <<>> ->
                   /\ mdFiles' = MapPut(mdFiles, orphan.Path, hit[1].Content)
                   /\ state' = recordSync(state, orphan.Path, orphan.ScrivUUID, hit[1].Content)
                   /\ Done(action, orphan.ScrivUUID)
                   /\ UNCHANGED <<binder, dataFiles, uuidGen, wProject, wModified>>
              [] OTHER ->
                   /\ Done(action, orphan.ScrivUUID)
                   /\ UNCHANGED <<mdFiles, binder, dataFiles, uuidGen, state, wProject,
                                  wModified>>
\* executePlan, "Handle orphans": resolveOrphanAction and executeOrphanAction for
\* one orphan
ExecOrphan ==
    /\ At("Orphans")
    /\ \E action \in resolveOrphanAction :
        LET orphan == Current
            docs   == GetAllDocuments(GetBinderStructure(rProject, dataFiles))
            hit    == SelectSeq(docs, LAMBDA d : d.UUID = orphan.ScrivUUID)
        IN  CASE action = "delete" /\ orphan.Location = "markdown" ->
                   /\ mdFiles' = MapDel(mdFiles, orphan.Path)
                   /\ state' = RemoveFile(state, orphan.Path)
                   /\ Done(action, orphan.ScrivUUID)
                   /\ UNCHANGED <<binder, dataFiles, uuidGen, wProject, wModified>>
              [] action = "recreate" /\ orphan.Location = "markdown" ->
                   /\ orphan.Path \in DOMAIN mdFiles
                   /\ CreateInFolder(orphan.Path, orphan.Title, mdFiles[orphan.Path])
              [] action = "recreate" /\ orphan.Location # "markdown" /\ hit # <<>> ->
                   /\ mdFiles' = MapPut(mdFiles, orphan.Path, hit[1].Content)
                   /\ state' = recordSync(state, orphan.Path, orphan.ScrivUUID, hit[1].Content)
                   /\ Done(action, orphan.ScrivUUID)
                   /\ UNCHANGED <<binder, dataFiles, uuidGen, wProject, wModified>>
              [] OTHER ->
                   /\ Done(action, orphan.ScrivUUID)
                   /\ UNCHANGED <<mdFiles, binder, dataFiles, uuidGen, state, wProject,
                                  wModified>>
\* executePlan, "Save Scrivener changes": Writer.Save writes the project file if
\* the binder was modified
WriterSave ==
    /\ pc = "exec"
    /\ step = Len(Items(execPlan))
    /\ binder' = IF wModified THEN wProject ELSE binder
    /\ wModified' = FALSE
    /\ pc' = "save"
    /\ UNCHANGED <<mdFiles, dataFiles, uuidGen, stateFile, now, edits, faults, opts, state,
                   plan, execPlan, step, wProject, rProject, log, hist, call>>
\* executePlan, "Save state": UpdateLastSync, State.Save, and the command returns
StateSave ==
    /\ pc = "save"
    /\ stateFile' = Save(UpdateLastSync(state, now))
    /\ ReturnFrom("complete")
    /\ UNCHANGED <<world, now, edits, faults, call>>
\* the write the run is about to make fails: executePlan returns the error
WritesNow ==
    \/ At("ToCreateInScriv") \/ At("ToCreateInMarkdown")
    \/ At("ToUpdateInScriv") \/ At("ToUpdateInMarkdown")
    \/ At("Conflicts") /\ resolveConflict \cap {"markdown", "scrivener"} # {}
    \/ At("Orphans") /\ \E a \in resolveOrphanAction :
          a = "recreate" \/ (a = "delete" /\ Current.Location = "markdown")
    \/ pc = "exec" /\ step = Len(Items(execPlan)) /\ wModified
    \/ pc = "save"
\* Fail had the State been saved on the way out
FailSavingState ==
    /\ WritesNow
    /\ faults < MaxFaults
    /\ faults' = faults + 1
    /\ stateFile' = Save(UpdateLastSync(state, now))
    /\ ReturnFrom("error")
    /\ UNCHANGED <<world, now, edits, call>>
\* Fail had the markdown file been written all the same
FailAfterWriting ==
    /\ WritesNow
    /\ faults < MaxFaults
    /\ faults' = faults + 1
    /\ ReturnFrom("error")
    /\ mdFiles' = IF At("ToCreateInMarkdown") \/ At("ToUpdateInMarkdown")
                  THEN MapPut(mdFiles, Current.MarkdownPath, Current.Content)
                  ELSE mdFiles
    /\ UNCHANGED <<binder, dataFiles, uuidGen, stateFile, now, edits, call>>
Fail ==
    /\ WritesNow
    /\ faults < MaxFaults
    /\ faults' = faults + 1
    /\ ReturnFrom("error")
    /\ UNCHANGED <<world, stateFile, now, edits, call>>

Next ==
    \/ \E p \in Paths : UserWriteFile(p) \/ UserRemoveFile(p)
    \/ \E i \in DOMAIN binder : UserEditDocument(binder[i].UUID)
    \/ \E i \in DOMAIN binder : UserDeleteDocument(binder[i].UUID)
    \/ \E t \in DocTitles : UserCreateDocument(t)
    \/ NewSyncerForAlias
    \/ DetectAllChanges
    \/ \E dryRun \in BOOLEAN, interactive \in BOOLEAN : Sync(dryRun, interactive)
    \/ \E dryRun \in BOOLEAN, interactive \in BOOLEAN : Pull(dryRun, interactive)
    \/ \E dryRun \in BOOLEAN, interactive \in BOOLEAN : Push(dryRun, interactive)
    \/ Status
    \/ ExecConflict
    \/ ExecCreateInScriv
    \/ ExecCreateInMarkdown
    \/ ExecUpdateInScriv
    \/ ExecUpdateInMarkdown
    \/ ExecOrphan
    \/ WriterSave
    \/ StateSave
    \/ Fail
Spec == Init /\ [][Next]_vars

\* The process is ended (a signal, a power cut) while State.Save is in
\* os.WriteFile, after the file was truncated and before all of it was written.
\* Ended before that the file is as it was (Fail), after that it is the new one
\* (StateSave).
KillDuringSave ==
    /\ pc = "save"
    /\ faults < MaxFaults
    /\ faults' = faults + 1
    /\ \E kept \in {"none", "some"} : stateFile' = TornFile(kept)
    /\ ReturnFrom("error")
    /\ UNCHANGED <<world, now, edits, call>>
\* The tool with everything else that happens to its stores: documents renamed
\* and dragged out of the mapped folder in Scrivener, the process ended in Save.
NextWide ==
    \/ Next
    \/ \E i \in DOMAIN binder, t \in RenameTitles : UserRenameDocument(binder[i].UUID, t)
    \/ \E i \in DOMAIN binder : UserMoveDocument(binder[i].UUID)
    \/ KillDuringSave
\* started on a project whose mapped folder exists, with an empty markdown directory
InitWide ==
    /\ Init
    /\ DOMAIN mdFiles = {}
    /\ binder # <<>>
SpecWide == InitWide /\ [][NextWide]_vars

\* A step of executePlan that reads nothing from the terminal: every step but the
\* resolution of a conflict or of an orphan in an interactive run, which blocks in
\* bufio.Reader.ReadString until the operator answers.
Unprompted ==
    \/ ~opts.interactive /\ (ExecConflict \/ ExecOrphan)
    \/ ExecCreateInScriv
    \/ ExecCreateInMarkdown
    \/ ExecUpdateInScriv
    \/ ExecUpdateInMarkdown
    \/ WriterSave
    \/ StateSave
\* One project to start from: a markdown file with no document yet, and a
\* document of the mapped folder with no markdown file yet.
InitLive ==
    /\ Init
    /\ DOMAIN mdFiles = {PathJoin(MarkdownDir, <<"c", ".", "m", "d">>)}
    /\ [i \in DOMAIN binder |-> binder[i].Title] = <<ScrivenerFolder, <<"A", " ", "B">>>>
\* The process is scheduled: a step that waits for nobody is taken.
SpecLive == InitLive /\ [][Next]_vars /\ WF_vars(Unprompted)

(***************************************************************************)
(* The methods of State called directly, on a State built up by RecordFile *)
(* and RemoveFile as the tests of the package build it.  Each call leaves  *)
(* its arguments, the State it was made on and its result in call.         *)
(***************************************************************************)
\* the document identifiers and the contents the calls are made with
CallUUIDs == {generateUUID(1), generateUUID(2)}
CallTexts == {<<>>, MdText, ScrivText}
\* NewState(path): an empty State, no file system and no project behind it
InitState ==
    /\ mdFiles = EmptyMap /\ binder = <<>> /\ dataFiles = EmptyMap /\ uuidGen = 1
    /\ stateFile = <<>> /\ now = 0 /\ edits = 0 /\ faults = 0
    /\ Idle
    /\ hist = [last |-> "none", cmd |-> "none", untouched |-> {}, acted |-> {},
               edited |-> FALSE, items |-> <<>>, done |-> 0, did |-> {},
               preview |-> "none"]
    /\ call = NoCall
CallOn == UNCHANGED <<world, stateFile, now, edits, faults, pc, opts, plan, execPlan, step,
                      wProject, wModified, rProject, log, hist>>
\* state.RecordFile(mdPath, scrivUUID, computeHash(content), time.Now())
CallRecordFile(mdPath, scrivUUID, content) ==
    /\ state' = RecordFile(state, mdPath, scrivUUID, computeHash(content), now, now)
    /\ call' = [op |-> "RecordFile", s |-> state, mdPath |-> mdPath, scrivUUID |-> scrivUUID,
                hash |-> computeHash(content)]
    /\ CallOn
\* state.RemoveFile(mdPath)
CallRemoveFile(mdPath) ==
    /\ state' = RemoveFile(state, mdPath)
    /\ call' = [op |-> "RemoveFile", s |-> state, mdPath |-> mdPath]
    /\ CallOn
\* state.DetectConflict(mdPath, mdHash, scrivUUID, scrivHash)
CallDetectConflict(mdPath, mdContent, scrivUUID, scrivContent) ==
    /\ call' = [op |-> "DetectConflict", s |-> state, mdPath |-> mdPath,
                mdHash |-> computeHash(mdContent), scrivUUID |-> scrivUUID,
                scrivHash |-> computeHash(scrivContent),
                result |-> DetectConflict(state, mdPath, computeHash(mdContent), scrivUUID,
                                          computeHash(scrivContent))]
    /\ UNCHANGED state
    /\ CallOn
\* state.WasPreviouslySynced(mdPath)
CallWasPreviouslySynced(mdPath) ==
    /\ call' = [op |-> "WasPreviouslySynced", s |-> state, mdPath |-> mdPath,
                result |-> WasPreviouslySynced(state, mdPath)]
    /\ UNCHANGED state
    /\ CallOn
NextState ==
    \/ \E p \in Paths, u \in CallUUIDs, c \in CallTexts : CallRecordFile(p, u, c)
    \/ \E p \in Paths : CallRemoveFile(p)
    \/ \E p \in Paths, u \in CallUUIDs, c \in CallTexts, d \in CallTexts :
          CallDetectConflict(p, c, u, d)
    \/ \E p \in Paths : CallWasPreviouslySynced(p)
SpecState == InitState /\ [][NextState]_vars

(***************************************************************************)
(* The builders of Plan called directly, on a Plan built up from NewPlan() *)
(* by these calls.  Each call leaves the Plan it was made on, the bucket   *)
(* it is to append to and the item it was given in call.                   *)
(***************************************************************************)
MaxPlanItems == 3
CallOnPlan ==
    /\ TotalOperations(plan) < MaxPlanItems
    /\ UNCHANGED <<world, stateFile, now, edits, faults, pc, opts, state, execPlan, step,
                   wProject, wModified, rProject, log, hist>>
Called(op, bucket, item) == [op |-> op, p |-> plan, bucket |-> bucket, item |-> item]
\* plan.AddCreateInScriv(mdPath, title, content)
CallAddCreateInScriv(mdPath, content) ==
    /\ plan' = AddCreateInScriv(plan, mdPath, TitleTable[mdPath], content)
    /\ call' = Called("AddCreateInScriv", "ToCreateInScriv",
                      FileChange(mdPath, "", TitleTable[mdPath], content))
    /\ CallOnPlan
\* plan.AddCreateInMarkdown(mdPath, scrivUUID, title, content)
CallAddCreateInMarkdown(mdPath, scrivUUID, content) ==
    /\ plan' = AddCreateInMarkdown(plan, mdPath, scrivUUID, TitleTable[mdPath], content)
    /\ call' = Called("AddCreateInMarkdown", "ToCreateInMarkdown",
                      FileChange(mdPath, scrivUUID, TitleTable[mdPath], content))
    /\ CallOnPlan
\* plan.AddUpdateInScriv(mdPath, scrivUUID, title, content)
CallAddUpdateInScriv(mdPath, scrivUUID, content) ==
    /\ plan' = AddUpdateInScriv(plan, mdPath, scrivUUID, TitleTable[mdPath], content)
    /\ call' = Called("AddUpdateInScriv", "ToUpdateInScriv",
                      FileChange(mdPath, scrivUUID, TitleTable[mdPath], content))
    /\ CallOnPlan
\* plan.AddUpdateInMarkdown(mdPath, scrivUUID, title, content)
CallAddUpdateInMarkdown(mdPath, scrivUUID, content) ==
    /\ plan' = AddUpdateInMarkdown(plan, mdPath, scrivUUID, TitleTable[mdPath], content)
    /\ call' = Called("AddUpdateInMarkdown", "ToUpdateInMarkdown",
                      FileChange(mdPath, scrivUUID, TitleTable[mdPath], content))
    /\ CallOnPlan
\* plan.AddConflict(mdPath, scrivUUID, title, mdContent, scrivContent)
CallAddConflict(mdPath, scrivUUID, mdContent, scrivContent) ==
    /\ plan' = AddConflict(plan, mdPath, scrivUUID, TitleTable[mdPath], mdContent,
                           scrivContent)
    /\ call' = Called("AddConflict", "Conflicts",
                      [MarkdownPath |-> mdPath, ScrivUUID |-> scrivUUID,
                       Title |-> TitleTable[mdPath], MarkdownContent |-> mdContent,
                       ScrivenerContent |-> scrivContent])
    /\ CallOnPlan
\* plan.AddOrphan(path, location, scrivUUID, title, lastSync)
CallAddOrphan(path, location, scrivUUID) ==
    /\ plan' = AddOrphan(plan, path, location, scrivUUID, TitleTable[path], 1)
    /\ call' = Called("AddOrphan", "Orphans",
                      [Path |-> path, Location |-> location, ScrivUUID |-> scrivUUID,
                       Title |-> TitleTable[path], LastSyncTime |-> 1])
    /\ CallOnPlan
NextPlan ==
    \/ \E p \in Paths : CallAddCreateInScriv(p, MdText)
    \/ \E p \in Paths, u \in CallUUIDs : CallAddCreateInMarkdown(p, u, ScrivText)
    \/ \E p \in Paths, u \in CallUUIDs : CallAddUpdateInScriv(p, u, MdText)
    \/ \E p \in Paths, u \in CallUUIDs : CallAddUpdateInMarkdown(p, u, ScrivText)
    \/ \E p \in Paths, u \in CallUUIDs : CallAddConflict(p, u, MdText, ScrivText)
    \/ \E p \in Paths, l \in {"markdown", "scrivener"}, u \in CallUUIDs : CallAddOrphan(p, l, u)
SpecPlan == InitState /\ [][NextPlan]_vars

(***************************************************************************)
(* What the claims are stated over.                                        *)
(***************************************************************************)
\* the State the run loaded, as it was before detection
Loaded == SetScrivPath(LoadState(stateFile), ScrivPath)
\* the documents the Reader returns during the run
DocsNow == GetBinderStructure(rProject, dataFiles)
\* the documents of the mapped folder with the title of a markdown file
TitledAs(ds, mdPath) ==
    SelectSeq(ds, LAMBDA d : ~IsFolder(d) /\ ToLower(d.Title) = ToLower(TitleOfPath(mdPath)))
SameTitle(mdPath) ==
    TitledAs(folderDocs(DocsNow, findFolderInDocs(DocsNow, ScrivenerFolder)), mdPath)
\* the document a markdown file is paired with: the last of them
PairOf(mdPath) == SameTitle(mdPath)[Len(SameTitle(mdPath))]
\* DetectConflict for a markdown file and the document it is paired with
PairConflict(mdPath) ==
    DetectConflict(Loaded, mdPath, computeHash(mdFiles[mdPath]), PairOf(mdPath).UUID,
                   ContentHash(PairOf(mdPath)))
\* how many items of a kind a plan holds for a path
Buckets == {"ToCreateInScriv", "ToCreateInMarkdown", "ToUpdateInScriv", "ToUpdateInMarkdown",
            "Conflicts"}
CountIn(pl, kind, mdPath) ==
    Cardinality({i \in DOMAIN pl[kind] : pl[kind][i].MarkdownPath = mdPath})
Counts(pl, mdPath) == [k \in Buckets |-> CountIn(pl, k, mdPath)]
OrphansOf(pl, mdPath) == SelectSeq(pl.Orphans, LAMBDA o : o.Path = mdPath)
\* one item of the given kind and no other create, update or conflict
Only(kind) == [k \in Buckets |-> IF k = kind THEN 1 ELSE 0]
\* the documents of the mapped folder, and the markdown path of one of them
FolderDocsNow ==
    SelectSeq(folderDocs(DocsNow, findFolderInDocs(DocsNow, ScrivenerFolder)),
              LAMBDA d : ~IsFolder(d))
PathOfDoc(d) == PathJoin(MarkdownDir, FileNameOfTitle(d.Title))
HasFileTitled(d) ==
    \E p \in DOMAIN mdFiles : ToLower(TitleOfPath(p)) = ToLower(d.Title)
\* the loaded State has a tombstone for the path and no live entry
Tombstoned(mdPath) ==
    mdPath \in DOMAIN Loaded.DeletedFiles /\ mdPath \notin DOMAIN Loaded.Files
\* the loaded State has an entry for the path, live or tombstoned
Tracked(mdPath) == mdPath \in DOMAIN Loaded.Files \cup DOMAIN Loaded.DeletedFiles
\* the plan leaves the path to the resolution policy
Decided(mdPath) == CountIn(plan, "Conflicts", mdPath) + Len(OrphansOf(plan, mdPath)) > 0
\* the document a live entry tracks is in the project
TrackedDocExists(mdPath) ==
    \E i \in DOMAIN DocsNow :
        ~IsFolder(DocsNow[i]) /\ DocsNow[i].UUID = Loaded.Files[mdPath].ScrivUUID
Locations(os) == [i \in DOMAIN os |-> os[i].Location]
\* executePlan has just been through an item of the kind, with the result
JustDid(kind, res) ==
    pc = "exec" /\ step > 0 /\ log[step].kind = kind /\ log[step].res = res
\* the State in memory has a live entry for the path with the hash of the
\* content and the UUID, and no tombstone
Recorded(mdPath, content, uuid) ==
    /\ mdPath \in DOMAIN state.Files
    /\ state.Files[mdPath].ContentHash = computeHash(content)
    /\ state.Files[mdPath].ScrivUUID = uuid
    /\ mdPath \notin DOMAIN state.DeletedFiles

\* C1: for a path with a live entry, DetectConflict compares each of the two
\* fingerprints with the recorded one on its own: none when both equal it,
\* markdown_modified when only the markdown hash differs, scrivener_modified
\* when only the Scrivener hash differs, both_modified when both differ.
C1_DetectConflictIndependent ==
    (call.op = "DetectConflict" /\ call.mdPath \in DOMAIN call.s.Files) =>
        call.result =
            IF call.mdHash = call.s.Files[call.mdPath].ContentHash
            THEN IF call.scrivHash = call.s.Files[call.mdPath].ContentHash
                 THEN "none" ELSE "scrivener_modified"
            ELSE IF call.scrivHash = call.s.Files[call.mdPath].ContentHash
                 THEN "markdown_modified" ELSE "both_modified"
\* a call on a live entry with only the markdown side changed
C1_Witness ==
    /\ call.op = "DetectConflict"
    /\ call.mdPath \in DOMAIN call.s.Files
    /\ call.mdHash # call.s.Files[call.mdPath].ContentHash
    /\ call.scrivHash = call.s.Files[call.mdPath].ContentHash
    /\ call.result = "markdown_modified"

C3_StateSavedLast ==
    [][/\ stateFile' # stateFile =>
             /\ pc = "save" /\ step = Len(Items(execPlan)) /\ ~wModified
             /\ pc' = "idle" /\ hist'.last = "complete"
       /\ pc \in {"ready", "detected", "exec"} => stateFile' = stateFile
       /\ faults' # faults =>
             /\ pc' = "idle" /\ hist'.last = "error"
             /\ mdFiles' = mdFiles /\ dataFiles' = dataFiles /\ binder' = binder
             /\ stateFile' = stateFile]_vars
\* a run failed after it had written a markdown file from a document; no State
\* has been saved
C3_Witness ==
    /\ pc = "idle" /\ hist.last = "error" /\ faults = 1
    /\ stateFile = <<>>
    /\ \E p \in DOMAIN mdFiles : mdFiles[p] = ScrivText

\* C4: after a sync that executed its whole plan with nothing skipped, a second
\* run with no edit of either store in between detects an empty plan.
C4_Idempotent ==
    (/\ pc = "detected"
     /\ hist.last = "complete" /\ hist.cmd = "sync" /\ hist.untouched = {}
     /\ ~hist.edited) => IsEmpty(plan)


\* C5: a tombstoned path that is back on one side only (a markdown file with no
\* document of its title, or a document of the mapped folder whose markdown path
\* it is, with no file) gets a conflict or an orphan in the plan.
C5_TombstoneDecided ==
    pc = "detected" =>
        /\ \A p \in DOMAIN mdFiles :
              (Tombstoned(p) /\ SameTitle(p) = <<>>) => Decided(p)
        /\ \A i \in DOMAIN FolderDocsNow :
              (/\ Tombstoned(PathOfDoc(FolderDocsNow[i]))
               /\ PathOfDoc(FolderDocsNow[i]) \notin DOMAIN mdFiles)
              => Decided(PathOfDoc(FolderDocsNow[i]))

\* C6: for a markdown file with no document of its title, and for a document of
\* the mapped folder with no markdown file of its title: the plan has exactly one
\* create toward the missing side when the path was never tracked, and no create
\* for the path when it has a live entry or a tombstone.
C6_CreateOnlyUntracked ==
    pc = "detected" =>
        /\ \A p \in DOMAIN mdFiles :
              SameTitle(p) = <<>> =>
                  /\ CountIn(plan, "ToCreateInScriv", p) = IF Tracked(p) THEN 0 ELSE 1
                  /\ CountIn(plan, "ToCreateInMarkdown", p) = 0
        /\ \A i \in DOMAIN FolderDocsNow :
              ~HasFileTitled(FolderDocsNow[i]) =>
                  /\ CountIn(plan, "ToCreateInMarkdown", PathOfDoc(FolderDocsNow[i]))
                       = IF Tracked(PathOfDoc(FolderDocsNow[i])) THEN 0 ELSE 1
                  /\ CountIn(plan, "ToCreateInScriv", PathOfDoc(FolderDocsNow[i])) = 0
\* a file whose document is gone is not created again, while an untracked
\* document gets its file
C6_Witness ==
    /\ pc = "detected"
    /\ \E p \in DOMAIN mdFiles :
          SameTitle(p) = <<>> /\ Tracked(p) /\ CountIn(plan, "ToCreateInScriv", p) = 0
    /\ \E i \in DOMAIN FolderDocsNow :
          /\ ~HasFileTitled(FolderDocsNow[i])
          /\ ~Tracked(PathOfDoc(FolderDocsNow[i]))
          /\ CountIn(plan, "ToCreateInMarkdown", PathOfDoc(FolderDocsNow[i])) = 1

\* C7: for every path with a live entry: the file exists and the tracked
\* document does not, one orphan with location markdown; the document exists
\* and the file does not, one orphan with location scrivener; both exist, no
\* orphan.
C7_OrphansByExistence ==
    pc = "detected" =>
        \A p \in DOMAIN Loaded.Files :
            CASE p \in DOMAIN mdFiles /\ ~TrackedDocExists(p) ->
                   Locations(OrphansOf(plan, p)) = <<"markdown">>
              [] p \notin DOMAIN mdFiles /\ TrackedDocExists(p) ->
                   Locations(OrphansOf(plan, p)) = <<"scrivener">>
              [] p \in DOMAIN mdFiles /\ TrackedDocExists(p) ->
                   OrphansOf(plan, p) = <<>>
              [] OTHER -> TRUE
\* one plan with an orphan of each location
C7_Witness ==
    /\ pc = "detected"
    /\ \E p \in DOMAIN Loaded.Files :
          p \in DOMAIN mdFiles /\ Locations(OrphansOf(plan, p)) = <<"markdown">>
    /\ \E p \in DOMAIN Loaded.Files :
          p \notin DOMAIN mdFiles /\ Locations(OrphansOf(plan, p)) = <<"scrivener">>

\* C8: a conflict resolved as markdown leaves the document with the markdown
\* content and the path recorded with that content's hash; resolved as scrivener
\* it leaves the file with the document's content and the path recorded with
\* that content's hash; the recorded UUID is the conflict's.
C8_ConflictResolved ==
    /\ JustDid("Conflicts", "markdown") =>
          /\ readDocumentContent(dataFiles, log[step].item.ScrivUUID)
               = log[step].item.MarkdownContent
          /\ Recorded(log[step].item.MarkdownPath, log[step].item.MarkdownContent,
                      log[step].item.ScrivUUID)
    /\ JustDid("Conflicts", "scrivener") =>
          /\ mdFiles[log[step].item.MarkdownPath] = log[step].item.ScrivenerContent
          /\ Recorded(log[step].item.MarkdownPath, log[step].item.ScrivenerContent,
                      log[step].item.ScrivUUID)

\* C9: a skipped conflict or orphan leaves the files, the project and the State
\* as they are, and the next detection with no edit in between has the same
\* conflict or orphan in its plan.
C9_SkipChangesNothing ==
    [][(pc = "exec" /\ step' = step + 1 /\ log'[step'].res = "skip") =>
          /\ mdFiles' = mdFiles /\ dataFiles' = dataFiles /\ binder' = binder
          /\ wProject' = wProject /\ state' = state]_vars
C9_SkipResurfaces ==
    (pc = "detected" /\ ~hist.edited) =>
        \A e \in hist.untouched :
            e.res = "skip" => \E i \in DOMAIN plan[e.kind] : plan[e.kind][i] = e.item
C9_SkipResurfacesUnlessActed ==
    (pc = "detected" /\ ~hist.edited) =>
        \A e \in hist.untouched :
            (e.res = "skip" /\ PathOfItem(e) \notin hist.acted) =>
                \E i \in DOMAIN plan[e.kind] : plan[e.kind][i] = e.item
C10_RecordedAfterWrite ==
    /\ JustDid("ToCreateInScriv", "done") =>
          /\ \E i \in DOMAIN wProject :
                wProject[i].UUID = log[step].uuid /\ wProject[i].Type = "Text"
          /\ dataFiles[log[step].uuid] = WriteRTF(log[step].item.Content)
          /\ Recorded(log[step].item.MarkdownPath, log[step].item.Content, log[step].uuid)
    /\ JustDid("ToUpdateInScriv", "done") =>
          /\ dataFiles[log[step].item.ScrivUUID] = WriteRTF(log[step].item.Content)
          /\ Recorded(log[step].item.MarkdownPath, log[step].item.Content,
                      log[step].item.ScrivUUID)
    /\ \A k \in {"ToCreateInMarkdown", "ToUpdateInMarkdown"} :
          JustDid(k, "done") =>
              /\ mdFiles[log[step].item.MarkdownPath] = log[step].item.Content
              /\ Recorded(log[step].item.MarkdownPath, log[step].item.Content,
                          log[step].item.ScrivUUID)
\* a document has just been created in Scrivener under a new UUID
C10_Witness ==
    /\ JustDid("ToCreateInScriv", "done")
    /\ log[step].uuid # ""
    /\ state.Files[log[step].item.MarkdownPath].ScrivUUID = log[step].uuid

\* the loops of executePlan, in the order of the source text
ExecOrder == <<"Conflicts", "ToCreateInScriv", "ToCreateInMarkdown", "ToUpdateInScriv",
               "ToUpdateInMarkdown", "Orphans">>
RankOf(kind) == IndexIn(ExecOrder, kind)
\* how many of the first n items executePlan went through were of the kind
DoneOf(kind, n) == Cardinality({j \in 1..n : log[j].kind = kind})

\* C11: executePlan goes through the plan in the order conflicts, creates in
\* Scrivener, creates in markdown, updates in Scrivener, updates in markdown,
\* orphans: when it is at an item, every item of every earlier group has been
\* executed.  Writer.Save comes after every item, State.Save after Writer.Save.
C11_ItemsInOrder ==
    pc \in {"exec", "save"} =>
        /\ \A i \in DOMAIN log : \A k \in Range(ExecOrder) :
              RankOf(k) < RankOf(log[i].kind) => DoneOf(k, i - 1) = Len(execPlan[k])
        /\ \A i \in DOMAIN log :
              \E n \in DOMAIN execPlan[log[i].kind] : execPlan[log[i].kind][n] = log[i].item
        /\ pc = "save" => Len(log) = TotalOperations(execPlan)
C11_SavesLast ==
    [][/\ (pc # "idle" /\ binder' # binder) =>
             pc = "exec" /\ Len(log) = TotalOperations(execPlan) /\ pc' = "save"
       /\ stateFile' # stateFile => pc = "save"]_vars
C11_FixedOrder == []C11_ItemsInOrder /\ C11_SavesLast
\* a run is about to save the State after items of three of the groups
C11_Witness ==
    /\ pc = "save"
    /\ Cardinality({log[i].kind : i \in DOMAIN log}) >= 3

\* C12: what a run changes in the Scrivener project (the binder and the content
\* files) is held in memory until Writer.Save at the end of the run: before
\* that call the project on disk is as the run found it, so a run that ends
\* earlier leaves none of its creations or content updates in it.
C12_BufferedUntilSave ==
    [][(pc # "idle" /\ (dataFiles' # dataFiles \/ binder' # binder)) =>
          pc = "exec" /\ step = Len(Items(execPlan)) /\ pc' = "save"]_vars

\* the item of the plan of the previous run is in the same bucket of this plan
Reappears(e) == \E n \in DOMAIN plan[e.kind] : plan[e.kind][n] = e.item
\* a detection after a run that returned an error, with no edit in between
Retried == pc = "detected" /\ hist.last = "error" /\ ~hist.edited

C14_FolderNotFoundFails ==
    pc \in {"detected", "exec", "save"} =>
        ~(findFolderInDocs(DocsNow, ScrivenerFolder) = <<>> /\ ~opts.CreateMissingFolders)

\* the path has a live entry in the loaded State, no markdown file, and the
\* document its entry tracks is not in the project
GoneOnBothSides(mdPath) ==
    /\ mdPath \in DOMAIN Loaded.Files
    /\ mdPath \notin DOMAIN mdFiles
    /\ ~TrackedDocExists(mdPath)

\* C15: a path with a live entry whose file and whose tracked document are both
\* gone gets no item of any kind in the plan, and after detection the State in
\* memory has no live entry for it.
C15_GonePurged ==
    pc = "detected" =>
        \A p \in Paths :
            GoneOnBothSides(p) =>
                /\ Counts(plan, p) = Only("")
                /\ OrphansOf(plan, p) = <<>>
                /\ p \notin DOMAIN state.Files
\* a detection that found a tracked path gone on both sides, and another path
\* still tracked with its file and its document
C15_Witness ==
    /\ pc = "detected"
    /\ \E p \in Paths : GoneOnBothSides(p) /\ p \notin DOMAIN state.Files
    /\ \E p \in Paths : p \in DOMAIN state.Files

\* C16: once the file and the document of a tracked path are both found gone,
\* the State keeps no record of the path, live or tombstoned:
\* WasPreviouslySynced is false for it afterwards.
C16_GoneForgotten ==
    pc = "detected" =>
        \A p \in Paths :
            GoneOnBothSides(p) =>
                /\ p \notin DOMAIN state.Files
                /\ p \notin DOMAIN state.DeletedFiles
                /\ ~WasPreviouslySynced(state, p)

\* the paths that are keys of the live map and of the tombstone set at once
LiveAndTombstoned(s) == DOMAIN s.Files \cap DOMAIN s.DeletedFiles

C18_NoLiveEntry ==
    (call.op = "DetectConflict" /\ call.mdPath \notin DOMAIN call.s.Files) =>
        call.result = IF call.mdPath \in DOMAIN call.s.DeletedFiles
                      THEN "both_modified" ELSE "new_file"
\* a call on a tombstoned path with both hashes equal to the tombstone's
C18_Witness ==
    /\ call.op = "DetectConflict"
    /\ call.mdPath \notin DOMAIN call.s.Files
    /\ call.mdPath \in DOMAIN call.s.DeletedFiles
    /\ call.mdHash = call.s.DeletedFiles[call.mdPath].ContentHash
    /\ call.scrivHash = call.mdHash
    /\ call.result = "both_modified"

\* C19: after RecordFile(path, id, hash, t) the live entry of path has the id
\* and the hash, path has no tombstone, and the live entries and the
\* tombstones of all other paths are as they were.
C19_RecordFile ==
    call.op = "RecordFile" =>
        /\ call.mdPath \in DOMAIN state.Files
        /\ state.Files[call.mdPath].ScrivUUID = call.scrivUUID
        /\ state.Files[call.mdPath].ContentHash = call.hash
        /\ call.mdPath \notin DOMAIN state.DeletedFiles
        /\ MapDel(state.Files, call.mdPath) = MapDel(call.s.Files, call.mdPath)
        /\ state.DeletedFiles = MapDel(call.s.DeletedFiles, call.mdPath)
\* a tombstoned path recorded again under another id, while another path is
\* live
C19_Witness ==
    /\ call.op = "RecordFile"
    /\ call.mdPath \in DOMAIN call.s.DeletedFiles
    /\ call.s.DeletedFiles[call.mdPath].ScrivUUID # call.scrivUUID
    /\ state.Files[call.mdPath].ScrivUUID = call.scrivUUID
    /\ \E q \in DOMAIN state.Files : q # call.mdPath

\* C20: RemoveFile(path) on a path with a live entry moves the entry as it is to
\* the tombstones: the path is no longer live and WasPreviouslySynced is still
\* true; on a path with no live entry it changes neither map.
C20_RemoveFile ==
    call.op = "RemoveFile" =>
        IF call.mdPath \in DOMAIN call.s.Files
        THEN /\ call.mdPath \notin DOMAIN state.Files
             /\ call.mdPath \in DOMAIN state.DeletedFiles
             /\ state.DeletedFiles[call.mdPath] = call.s.Files[call.mdPath]
             /\ WasPreviouslySynced(state, call.mdPath)
             /\ state.Files = MapDel(call.s.Files, call.mdPath)
             /\ MapDel(state.DeletedFiles, call.mdPath) = MapDel(call.s.DeletedFiles, call.mdPath)
        ELSE state.Files = call.s.Files /\ state.DeletedFiles = call.s.DeletedFiles
\* a live entry has been moved to the tombstones while another path stays live
C20_Witness ==
    /\ call.op = "RemoveFile"
    /\ call.mdPath \in DOMAIN call.s.Files
    /\ state.DeletedFiles[call.mdPath] = call.s.Files[call.mdPath]
    /\ call.mdPath \notin DOMAIN state.Files
    /\ DOMAIN state.Files # {}

(***************************************************************************)
(* C21..C30                                                                *)
(***************************************************************************)
\* a plan holds nothing for the path
NothingFor(pl, mdPath) ==
    /\ \A k \in Buckets : CountIn(pl, k, mdPath) = 0
    /\ OrphansOf(pl, mdPath) = <<>>
\* the previous run went through its whole plan and saved, and nobody has
\* touched a file or a document since; the next run has its plan
NextRunUnedited == pc = "detected" /\ hist.last = "complete" /\ ~hist.edited

\* C21: a tracked path whose markdown file alone changed is updated in Scrivener
\* and recorded with the hash of the new content; the run after that, with no
\* edit in between, plans nothing for the path.
C21_ThirdRunEmpty ==
    NextRunUnedited =>
        \A d \in hist.did : d.kind = "ToUpdateInScriv" => NothingFor(plan, d.path)

\* the orphan executePlan has just handled
Handled == log[step].item
\* C22: recreating an orphan writes the missing side from the surviving content
\* and records the path with the hash of that content (a file without its document
\* gets a new document, a document without its file gets the file back); the run
\* after that, with no edit in between, plans no orphan and no conflict for the path.
C22_RecreateWrites ==
    JustDid("Orphans", "recreate") =>
        IF Handled.Location = "markdown"
        THEN /\ HasItem(wProject, log[step].uuid)
             /\ ~HasItem(rProject, log[step].uuid)
             /\ dataFiles[log[step].uuid] = WriteRTF(mdFiles[Handled.Path])
             /\ Recorded(Handled.Path, mdFiles[Handled.Path], log[step].uuid)
        ELSE /\ Handled.Path \in DOMAIN mdFiles
             /\ mdFiles[Handled.Path] = readDocumentContent(dataFiles, Handled.ScrivUUID)
             /\ Recorded(Handled.Path, mdFiles[Handled.Path], Handled.ScrivUUID)
C22_RecreateSettles ==
    NextRunUnedited =>
        \A d \in hist.did :
            (d.kind = "Orphans" /\ d.res = "recreate") =>
                /\ CountIn(plan, "Conflicts", d.path) = 0
                /\ OrphansOf(plan, d.path) = <<>>
C22_Recreate == C22_RecreateWrites /\ C22_RecreateSettles
\* the run after one that recreated a document for one path and a file for the other
C22_Witness ==
    /\ NextRunUnedited
    /\ \E d \in hist.did : d.kind = "Orphans" /\ d.res = "recreate" /\ d.loc = "markdown"
    /\ \E d \in hist.did : d.kind = "Orphans" /\ d.res = "recreate" /\ d.loc = "scrivener"

\* the previous run went through its whole plan and saved; nothing has happened since
RunJustEnded == pc = "idle" /\ hist.last = "complete" /\ ~hist.edited
\* what the previous run did for its orphans of a location with the given action
DidOrphan(res, loc) == {d \in hist.did : d.kind = "Orphans" /\ d.res = res /\ d.loc = loc}

\* C23: deleting an orphan whose document is gone and whose markdown file survives
\* removes the file and the live entry of the path: once the orphan is handled,
\* and after the run in the saved State, the file does not exist and the path has
\* no live entry.
C23_DeleteSurvivingFile ==
    /\ (JustDid("Orphans", "delete") /\ Handled.Location = "markdown") =>
          /\ Handled.Path \notin DOMAIN mdFiles
          /\ Handled.Path \notin DOMAIN state.Files
    /\ RunJustEnded =>
          \A d \in DidOrphan("delete", "markdown") :
              /\ d.path \notin DOMAIN mdFiles
              /\ d.path \notin DOMAIN LoadState(stateFile).Files
\* a run that deleted the surviving file of an orphan has saved: the path is tombstoned
C23_Witness ==
    /\ RunJustEnded
    /\ \E d \in DidOrphan("delete", "markdown") :
          /\ d.path \notin DOMAIN mdFiles
          /\ d.path \in DOMAIN LoadState(stateFile).DeletedFiles

\* C24: deleting an orphan whose markdown file is gone and whose document
\* survives removes the document from the project and the live entry of the path.
C24_DeleteSurvivingDocument ==
    (JustDid("Orphans", "delete") /\ Handled.Location = "scrivener") =>
        /\ ~HasItem(wProject, Handled.ScrivUUID)
        /\ Handled.Path \notin DOMAIN state.Files

\* executePlan is running without an operator
Unattended == pc \in {"exec", "save"} /\ ~opts.interactive
\* resolveOrphanAction's mapping of the configured default_deletion_action
MappedDeletion(d) == IF d \in {"delete", "recreate"} THEN d ELSE "skip"

\* C25: a non-interactive run waits for nobody and ends: each conflict gets the
\* configured default resolution, each orphan the configured default deletion
\* action (delete, recreate, anything else is skip), a conflict whose default is
\* none of markdown, scrivener, skip is left as it is, and the run returns.
C25_DefaultsApplied ==
    Unattended =>
        \A i \in DOMAIN log :
            /\ log[i].kind = "Conflicts" => log[i].res = opts.DefaultConflictResolution
            /\ log[i].kind = "Orphans" => log[i].res = MappedDeletion(opts.DefaultDeletionAction)
C25_UnknownLeavesConflict ==
    [][(/\ At("Conflicts") /\ ~opts.interactive
        /\ opts.DefaultConflictResolution \notin {"markdown", "scrivener", "skip"}
        /\ pc' = "exec")
       => /\ step' = step + 1
          /\ UNCHANGED <<mdFiles, binder, dataFiles, stateFile, state, wProject>>]_vars
C25_Returns == Unattended ~> pc = "idle"
C25_NonInteractive == []C25_DefaultsApplied /\ C25_UnknownLeavesConflict /\ C25_Returns
\* a non-interactive run under the default config ("prompt", "prompt") is through
\* a conflict and an orphan
C25_Witness ==
    /\ pc = "save" /\ ~opts.interactive
    /\ opts.DefaultConflictResolution = "prompt" /\ opts.DefaultDeletionAction = "prompt"
    /\ \E i \in DOMAIN log : log[i].kind = "Conflicts" /\ log[i].res = "prompt"
    /\ \E i \in DOMAIN log : log[i].kind = "Orphans" /\ log[i].res = "skip"

\* a step of a command up to the point where it has printed its plan and returns
\* or starts to execute: NewSyncer, detectAllChanges, the return of a preview
StepOfPreview ==
    \/ pc = "idle" /\ pc' = "ready"
    \/ pc = "ready"
    \/ pc = "detected" /\ pc' = "idle"

\* C26: Status, and Sync, Pull and Push with --dry-run, never get to executePlan,
\* and no step of theirs changes a markdown file, the project or the state file.
C26_NeverExecutes == pc \in {"exec", "save"} => (~opts.dryRun /\ opts.cmd # "status")
C26_ChangesNothing ==
    [][StepOfPreview => UNCHANGED <<mdFiles, binder, dataFiles, stateFile>>]_vars
C26_PreviewOnly == []C26_NeverExecutes /\ C26_ChangesNothing
\* a dry run has returned from a plan that was not empty, with a State saved by
\* an earlier run
C26_Witness == pc = "idle" /\ hist.preview = "dry-run" /\ stateFile # <<>>

\* C27: when a pull has been through its plan, every conflict detected holds the
\* Scrivener content in its markdown file and is recorded with it; when a push has,
\* every conflict detected holds the markdown content in its document and is
\* recorded with it.
C27_PullPushPrecedence ==
    pc = "save" =>
        \A i \in DOMAIN plan.Conflicts :
            LET c == plan.Conflicts[i]
            IN  /\ opts.cmd = "pull" =>
                      /\ c.MarkdownPath \in DOMAIN mdFiles
                      /\ mdFiles[c.MarkdownPath] = c.ScrivenerContent
                      /\ Recorded(c.MarkdownPath, c.ScrivenerContent, c.ScrivUUID)
                /\ opts.cmd = "push" =>
                      /\ dataFiles[c.ScrivUUID] = WriteRTF(c.MarkdownContent)
                      /\ Recorded(c.MarkdownPath, c.MarkdownContent, c.ScrivUUID)

\* two States with the same live entries, tombstones, Scrivener path and instant
\* of the last sync
SameState(a, b) ==
    /\ a.Files = b.Files
    /\ a.DeletedFiles = b.DeletedFiles
    /\ a.ScrivPath = b.ScrivPath
    /\ (a.LastSync = <<>>) = (b.LastSync = <<>>)
    /\ a.LastSync # <<>> => TimeEqual(a.LastSync[1], b.LastSync[1])

\* C28: what LoadState reads from the state file a Save has written is the State
\* that was saved: the same live entries, tombstones, Scrivener path and time of
\* the last sync.
C28_SaveLoad ==
    [][stateFile' # stateFile =>
          SameState(LoadState(stateFile'), UpdateLastSync(state, now))]_vars
\* a run has loaded the State another run saved: it holds a live entry, a
\* tombstone and the time of the last sync as read from the file
C28_Witness ==
    /\ pc = "ready" /\ stateFile # <<>>
    /\ DOMAIN state.Files # {} /\ DOMAIN state.DeletedFiles # {}
    /\ state.LastSync # <<>> /\ ~state.LastSync[1].monotonic

\* C29: with no state file on disk the run starts all the same, from an empty
\* State (no live entry, no tombstone, no time of a last sync), and loading it
\* creates no state file.
C29_EmptyState ==
    (pc = "ready" /\ stateFile = <<>>) =>
        /\ state.Files = EmptyMap
        /\ state.DeletedFiles = EmptyMap
        /\ state.LastSync = <<>>
C29_CreatesNothing ==
    [][(pc = "idle" /\ pc' = "ready") => UNCHANGED <<stateFile, mdFiles, binder, dataFiles>>]_vars
C29_LoadMissing == []C29_EmptyState /\ C29_CreatesNothing
\* a run has started with no state file on disk, after a run that failed before
\* it saved one
C29_Witness == pc = "ready" /\ stateFile = <<>> /\ hist.last = "error"

\* C30: the state file changes only where executePlan calls State.Save, to the
\* State in memory at that point; whatever RecordFile, RemoveFile, SetScrivPath,
\* DetectConflict and the detection phase do to the State in memory while a run is
\* under way, the file stays as it was.
C30_OnlySaveWrites ==
    [][stateFile' # stateFile =>
          (pc = "save" /\ stateFile' = Save(UpdateLastSync(state, now)))]_vars
C30_MemoryOnly ==
    [][(state' # state /\ pc' # "idle") => stateFile' = stateFile]_vars
C30_SavedOnlyBySave == C30_OnlySaveWrites /\ C30_MemoryOnly
\* executePlan is under way on a State whose live entries and tombstones both
\* differ from those of the state file
C30_Witness ==
    /\ pc = "exec" /\ stateFile # <<>>
    /\ state.Files # LoadState(stateFile).Files
    /\ state.DeletedFiles # LoadState(stateFile).DeletedFiles

(***************************************************************************)
(* C31..C40                                                                *)
(***************************************************************************)
\* C31: State.Save writes the snapshot atomically: whenever the process ends
\* during Save, the state file holds the complete previous snapshot or the
\* complete new one, never an empty or a partial one.  Every step leaves the
\* file as it was or as the whole snapshot Save was called to write.
C31_SaveAtomic ==
    [][stateFile' \in {stateFile, Save(UpdateLastSync(state, now))}]_vars

\* the number of items of the plan, over its six buckets, that name the path
References(pl, mdPath) ==
    CountIn(pl, "ToCreateInScriv", mdPath) + CountIn(pl, "ToCreateInMarkdown", mdPath)
    + CountIn(pl, "ToUpdateInScriv", mdPath) + CountIn(pl, "ToUpdateInMarkdown", mdPath)
    + CountIn(pl, "Conflicts", mdPath) + Len(OrphansOf(pl, mdPath))
\* C36: within one plan made by detection no markdown path is named by more
\* than one item over the six buckets: never by an update or a conflict and an
\* orphan as well, never by two creates.
C36_OnePathOneItem ==
    pc = "detected" => \A p \in Paths : References(plan, p) <= 1
\* the case of two creates for one path
C36_OneCreatePerPath ==
    pc = "detected" =>
        \A p \in Paths :
            CountIn(plan, "ToCreateInScriv", p) + CountIn(plan, "ToCreateInMarkdown", p) <= 1

\* C39: a run in one direction changes only the side it writes to, whatever is
\* chosen for an orphan: no step of a Pull creates or updates a document of the
\* Scrivener project, no step of a Push writes or deletes a markdown file.
C39_OneDirection ==
    [][/\ (pc = "exec" /\ opts.cmd = "pull") =>
            (binder' = binder /\ dataFiles' = dataFiles)
       /\ (pc = "exec" /\ opts.cmd = "push") => mdFiles' = mdFiles]_vars

\* the half of it about Pull
C39_PullKeepsProject ==
    [][(pc = "exec" /\ opts.cmd = "pull") => (binder' = binder /\ dataFiles' = dataFiles)]_vars

\* detection of this run found the tracked path gone on both sides and removed
\* its live entry from the State in memory; the state file still has it
Purged(p) ==
    /\ p \in DOMAIN LoadState(stateFile).Files
    /\ p \notin DOMAIN state.Files
    /\ GoneOnBothSides(p)
\* C40: the removal of an entry whose file and document are both gone reaches the
\* state file in the same run: when a Sync whose detection made it returns without
\* an error, the saved State has no live entry for the path, also when the plan
\* was empty.
C40_PurgeSaved ==
    [][\A p \in Paths :
          (/\ Purged(p)
           /\ (pc = "detected" /\ IsEmpty(plan)) \/ pc = "save"
           /\ pc' = "idle" /\ faults' = faults)
          => p \notin DOMAIN LoadState(stateFile').Files]_vars
\* the same of the runs that had something to execute
C40_PurgeSavedAfterExecuting ==
    [][\A p \in Paths :
          (Purged(p) /\ pc = "save" /\ pc' = "idle" /\ faults' = faults)
          => p \notin DOMAIN LoadState(stateFile').Files]_vars

\* the orphans of a plan whose surviving copy is on the given side
OrphansAt(pl, location) == SelectSeq(pl.Orphans, LAMBDA o : o.Location = location)
C35_WitnessPush ==
    /\ pc = "exec" /\ opts.cmd = "push"
    /\ plan.Conflicts # <<>>
    /\ execPlan.Orphans # <<>>

\* the six buckets of a Plan
AllBuckets == Buckets \cup {"Orphans"}
\* C34: a builder of Plan appends the one item it is given to its one bucket and
\* leaves the other five buckets and the items already there as they were;
\* TotalOperations is the number of items over the six buckets, and IsEmpty is
\* true exactly when TotalOperations is 0.
C34_Appended ==
    call.op # "none" =>
        /\ plan[call.bucket] = call.p[call.bucket] \o <<call.item>>
        /\ \A k \in AllBuckets \ {call.bucket} : plan[k] = call.p[k]
        /\ TotalOperations(plan) = TotalOperations(call.p) + 1
C34_Counted ==
    /\ TotalOperations(plan) = Len(Items(plan))
    /\ TotalOperations(plan) = Cardinality({<<k, i>> \in AllBuckets \X (1..MaxPlanItems) :
                                               i \in DOMAIN plan[k]})
    /\ IsEmpty(plan) <=> TotalOperations(plan) = 0
C34_Builders == C34_Appended /\ C34_Counted
\* an orphan was appended to a plan that had an orphan and an item elsewhere
C34_Witness ==
    /\ call.op = "AddOrphan"
    /\ call.p.Orphans # <<>>
    /\ call.p.Conflicts # <<>>
    /\ TotalOperations(plan) = MaxPlanItems

\* a document of the project has the identifier
DocExists(uuid) == \E i \in DOMAIN DocsNow : ~IsFolder(DocsNow[i]) /\ DocsNow[i].UUID = uuid
\* the items of the detected plan
PlanItem(i) == Items(plan)[i]
\* every item names a path whose file exists or whose document exists
C32_ItemsExist ==
    pc = "detected" =>
        \A i \in DOMAIN Items(plan) :
            \/ PathOfItem(PlanItem(i)) \in DOMAIN mdFiles
            \/ DocExists(PlanItem(i).item.ScrivUUID)
\* no markdown file exists at the path of a create in markdown
C32_CreateInMarkdownIsNew ==
    pc = "detected" =>
        \A i \in DOMAIN plan.ToCreateInMarkdown :
            plan.ToCreateInMarkdown[i].MarkdownPath \notin DOMAIN mdFiles
\* no document of the mapped folder has the title of a create in Scrivener
C32_CreateInScrivIsNew ==
    pc = "detected" =>
        \A i \in DOMAIN plan.ToCreateInScriv :
            SameTitle(plan.ToCreateInScriv[i].MarkdownPath) = <<>>
\* C32: every item of a detected plan names a path that exists in at least one
\* of the two stores, and a create never targets what is already there: no file
\* exists at the path of a create in markdown, and no document of the mapped
\* folder has the case-folded title of a create in Scrivener.
C32_CreatesAreNew ==
    C32_ItemsExist /\ C32_CreateInMarkdownIsNew /\ C32_CreateInScrivIsNew

\* the buckets whose items pair a markdown file with a document
PairBuckets == {"ToUpdateInScriv", "ToUpdateInMarkdown", "Conflicts"}
\* the document is in the mapped folder and has the case-folded title of the file
SameFoldedTitle(mdPath, uuid) ==
    \E j \in DOMAIN FolderDocsNow :
        /\ FolderDocsNow[j].UUID = uuid
        /\ ToLower(FolderDocsNow[j].Title) = ToLower(TitleOfPath(mdPath))
\* C33: detection pairs a markdown file with a document only when their
\* case-folded titles are equal and the document is in the mapped folder: every
\* update and every conflict of a detected plan is of a file and a document of
\* equal titles, whatever their contents.
C33_PairedByTitle ==
    pc = "detected" =>
        \A k \in PairBuckets :
            \A i \in DOMAIN plan[k] :
                SameFoldedTitle(plan[k][i].MarkdownPath, plan[k][i].ScrivUUID)
\* the plan pairs a file with a document while a file and a document of the
\* mapped folder with the same content and different titles are there
C33_Witness ==
    /\ pc = "detected"
    /\ \E k \in PairBuckets : plan[k] # <<>>
    /\ \E p \in DOMAIN mdFiles :
          \E j \in DOMAIN FolderDocsNow :
              /\ FolderDocsNow[j].Content = mdFiles[p]
              /\ ToLower(FolderDocsNow[j].Title) # ToLower(TitleOfPath(p))
              /\ p = PathJoin(MarkdownDir, FileNameOfTitle(FolderDocsNow[j].Title))

\* no two live entries of the State have the same document
OneToOne(st) ==
    \A p \in DOMAIN st.Files :
        \A q \in DOMAIN st.Files : st.Files[p].ScrivUUID = st.Files[q].ScrivUUID => p = q
\* C37: after any sequence of runs and edits of the user, a document renamed in
\* Scrivener among them, the live map is one-to-one: no two live entries of the
\* State, in memory or saved, have the same document identifier.
C37_OneToOne ==
    /\ OneToOne(state)
    /\ ~LoadStateFails(stateFile) => OneToOne(LoadState(stateFile))

\* the file of a live entry or the document it tracks is not what was recorded
ChangedSinceRecorded(mdPath) ==
    \/ computeHash(mdFiles[mdPath]) # Loaded.Files[mdPath].ContentHash
    \/ \E i \in DOMAIN DocsNow :
          /\ ~IsFolder(DocsNow[i])
          /\ DocsNow[i].UUID = Loaded.Files[mdPath].ScrivUUID
          /\ ContentHash(DocsNow[i]) # Loaded.Files[mdPath].ContentHash
\* the tracked path has its file and its document
BothThere(mdPath) ==
    /\ mdPath \in DOMAIN Loaded.Files
    /\ mdPath \in DOMAIN mdFiles
    /\ TrackedDocExists(mdPath)
\* C38: detection loses no change of a tracked path: when the file and the
\* tracked document of a live entry both exist and the content of either is not
\* the recorded one, the plan has an update or a conflict for the path, also
\* when the title of the document does not come back from its file name or the
\* document was moved out of the mapped folder.
C38_NoChangeLost ==
    pc = "detected" =>
        \A p \in Paths :
            (BothThere(p) /\ ChangedSinceRecorded(p)) =>
                \E k \in PairBuckets : CountIn(plan, k, p) > 0

=============================================================================
